---- MODULE Spec2Model ----
(***************************************************************************)
(* Browser-side scripts of the Extranet ordering application, modelled as  *)
(* an event loop: every action is one handler (a DOM event listener, a     *)
(* timer callback, or the continuation of a fetch) run to completion.      *)
(*                                                                         *)
(* A run starts on one page.  page = "commande" is the order page driven   *)
(* by commander.js; "panier" is the cart page and "catalogue" the product  *)
(* page with add-to-cart forms and the recap panel, both driven by         *)
(* panier.js; "inscription" is the form that uses initClientSearch.        *)
(* "dates" is a form with the delivery and departure date fields           *)
(* (date-calcul.js; the order page holds the same function and the same    *)
(* two fields, which depend on nothing else of that page), "countdown" a   *)
(* page with [data-countdown] elements (countdown.js) and "listes" a page  *)
(* with [data-liste-limitee] containers (liste_limite.js).                 *)
(*                                                                         *)
(* Time is counted in milliseconds and advances by TimeStep.  A timer      *)
(* created by setTimeout(f, d) is a record with the remaining delay; it    *)
(* runs when the delay has elapsed, and the clock does not advance and no  *)
(* user event is taken while a timer is due.                               *)
(*                                                                         *)
(* A JavaScript value that may be undefined is a sequence: << >> is        *)
(* undefined and <<v>> is the value v.  A text is a sequence of            *)
(* one-character strings.                                                  *)
(*                                                                         *)
(* Most files hold two copies of their script, one documented and one     *)
(* not.  The model follows the documented copy, loaded once.               *)
(*                                                                         *)
(* Left out: the 300 ms timer of updatePanierBadge that removes the        *)
(* cart-bounce class (styling only), the close button of a notification    *)
(* (handled by Bootstrap), the product filter and the scroll position.     *)
(* Response bodies are objects; the lines of lignes_panier are well        *)
(* formed.  A Date is counted in hours, and the time zone of the browser   *)
(* is UTC or Europe/Paris.                                                 *)
(***************************************************************************)
EXTENDS Integers, Sequences, FiniteSets, TLC

\* ------------------------------------------------------------------ bounds
TimeStep == 200
MaxEdits == 2
MaxCount == 1
MaxSeconds == 5
LongCountdown == 70
MaxToggles == 6

\* ------------------------------------------------------- program constants
SearchDelay == 300
SyncDelay == 400
ChangeDelay == 500
AlertDelay == 3000
MinQuery == 2
DaysAhead == 7
DaysBack == 2
OneSecond == 1000
SmallBreak == 768
LargeBreak == 1200
SmallLimit == 20
MediumLimit == 60
SecondsPerMinute == 60

Refs == {"A", "B"}
Keys == Refs \cup {"search"}

VARIABLES
    page,           \* which page this run is on
    timers,         \* pending setTimeout callbacks
    nextId,         \* next timer id returned by setTimeout
    inflight,       \* fetch requests sent and not yet settled
    nFetch,         \* number of fetch calls so far
    badge,          \* #panier-badge: << >> when absent, <<text>> otherwise
    panierLink,     \* does a[href*="panier"] exist
    ocInput,        \* order page: value of each .quantite-commande-input
    sousTotal,      \* order page: text of each .sous-total-ligne
    totalCommande,  \* order page: text of #total-commande
    totalQuantite,  \* order page: text of #total-quantite
    syncTimers,     \* order page: syncTimers[reference]
    addBtn,         \* catalogue: submit button of the .ajouter-panier-form
    recap,          \* catalogue: content of #recap-panier-content
    alerts,         \* the .alert.position-fixed elements in the document
    rows,           \* cart page: references whose <tr> is in the table
    qInput,         \* cart page: value of each .quantite-input
    ligneTotal,     \* cart page: text of each .ligne-total
    panierTotal,    \* cart page: text of .panier-total
    nbArticles,     \* cart page: text of the "Articles" counter
    timeoutId,      \* cart page: the 'timeout' variable of each .quantite-input
    reloaded,       \* location.reload() was called
    searchValue,    \* inscription: value of #client-search
    hiddenValue,    \* inscription: value of #client
    selectedDiv,    \* inscription: content of #selected-client
    results,        \* inscription: content of #search-results
    debounceTimer,  \* inscription: the debounceTimer variable
    tz,             \* date fields: time zone of the browser
    dateLivraison,  \* date fields: value of #date-livraison
    dateDepartCamions, \* date fields: value of #date-depart-camions
    cdAttr,         \* countdown: data-countdown attribute of each element
    cdText,         \* countdown: text of each .countdown-time
    reloadCalls,    \* countdown: number of calls of location.reload()
    cdStart,        \* history: data-countdown of each element as served
    cdTicks,        \* history: number of runs of the interval callback
    innerWidth,     \* lists: window.innerWidth
    items,          \* lists: number of children of each [data-liste-limitee]
    sameParent,     \* lists: do the containers have the same parent element
    hidden,         \* lists: per container, the indices of the children with display none
    voirPlus,       \* lists: per parent element, its .voir-plus-wrapper if any
    recherche,      \* product rows: value of #recherche-produit
    pwMode,         \* passwords: per field, how its button is bound ("auto", "manual")
    pwType,         \* passwords: type attribute of each field
    pwIcon,         \* passwords: class list of the <i> of each button
    pwClicks,       \* history: number of activations of each button
    absent,         \* the element the page was served without, or "none"
    errors,         \* number of uncaught exceptions so far
    dbc,            \* history: per key, the edits made and the requests sent
    quiet,          \* history: per key, ms elapsed since the last edit
    nEdits,         \* history: number of user events so far
    last            \* history: the handler that ran last

orderVars == <<ocInput, sousTotal, totalCommande, totalQuantite, syncTimers>>
catVars == <<addBtn, recap>>
cartVars == <<rows, qInput, ligneTotal, panierTotal, nbArticles, timeoutId>>
searchVars == <<searchValue, hiddenValue, selectedDiv, results, debounceTimer>>
dateVars == <<tz, dateLivraison, dateDepartCamions>>
countdownVars == <<cdAttr, cdText, reloadCalls, cdStart, cdTicks>>
listVars == <<innerWidth, items, sameParent, hidden, voirPlus, recherche>>
holeVars == <<absent, errors>>
pwVars == <<pwMode, pwType, pwIcon, pwClicks>>
widgetVars == <<dateVars, countdownVars, listVars, holeVars, pwVars>>
vars == <<page, widgetVars, timers, nextId, inflight, nFetch, badge, panierLink,
          ocInput, sousTotal, totalCommande, totalQuantite, syncTimers,
          addBtn, recap, alerts, rows, qInput, ligneTotal, panierTotal,
          nbArticles, timeoutId, reloaded,
          searchValue, hiddenValue, selectedDiv, results, debounceTimer,
          dbc, quiet, nEdits, last>>

\* ------------------------------------------------------- JavaScript values
Undefined == << >>
Def(x) == x # << >>
Min(a, b) == IF a < b THEN a ELSE b
QuietCap == ChangeDelay + TimeStep

DigitChars == <<"0", "1", "2", "3", "4", "5", "6", "7", "8", "9">>
IsDigit(c) == \E i \in 1..10 : DigitChars[i] = c
DigitVal(c) == (CHOOSE i \in 1..10 : DigitChars[i] = c) - 1

RECURSIVE LeadingDigits(_)
LeadingDigits(s) ==
    IF s = << >> \/ ~IsDigit(Head(s)) THEN << >>
    ELSE <<Head(s)>> \o LeadingDigits(Tail(s))

RECURSIVE DigitsValue(_, _)
DigitsValue(s, acc) ==
    IF s = << >> THEN acc ELSE DigitsValue(Tail(s), 10 * acc + DigitVal(Head(s)))

RECURSIVE TrimLeft(_)
TrimLeft(s) == IF s # << >> /\ Head(s) = " " THEN TrimLeft(Tail(s)) ELSE s

RECURSIVE TrimRight(_)
TrimRight(s) ==
    IF s # << >> /\ s[Len(s)] = " " THEN TrimRight(SubSeq(s, 1, Len(s) - 1)) ELSE s

Trim(s) == TrimRight(TrimLeft(s))

\* parseInt(text): << >> is NaN
ParseInt(s) ==
    LET t == TrimLeft(s)
        neg == t # << >> /\ Head(t) = "-"
        u == IF t # << >> /\ Head(t) \in {"-", "+"} THEN Tail(t) ELSE t
        d == LeadingDigits(u)
    IN  IF d = << >> THEN << >>
        ELSE <<(IF neg THEN -1 ELSE 1) * DigitsValue(d, 0)>>

\* x || 0 for a number x: NaN and 0 are falsy
OrZero(x) == IF Def(x) THEN x[1] ELSE 0

RECURSIVE NatToStr(_)
NatToStr(n) ==
    IF n < 10 THEN <<DigitChars[n + 1]>>
    ELSE NatToStr(n \div 10) \o <<DigitChars[(n % 10) + 1]>>

\* String(n) for an integer n
IntToStr(n) == IF n < 0 THEN <<"-">> \o NatToStr(-n) ELSE NatToStr(n)

\* (c / 100).toFixed(2) + ' EUR' for an amount of c hundredths (EUR is the euro sign)
ToFixed2(c) ==
    LET a == IF c < 0 THEN -c ELSE c
        cents == NatToStr(a % 100)
    IN  (IF c < 0 THEN <<"-">> ELSE << >>) \o NatToStr(a \div 100) \o <<".">>
        \o (IF Len(cents) = 1 THEN <<"0">> ELSE << >>) \o cents \o <<" ", "EUR">>

\* ------------------------------------------------------------------ timers
NoTimerDue == \A t \in timers : t.remaining > 0
Timer(id, chan, key, delay, arg) ==
    [id |-> id, chan |-> chan, key |-> key, remaining |-> delay, arg |-> arg]
\* mutant: clearTimeout has no effect
ClearTimeout_Noop(ts, id) == ts
\* clearTimeout(id)
ClearTimeout(ts, id) == {t \in ts : t.id # id}

\* the debounce window of the page's channel
Window ==
    IF page = "commande" THEN SyncDelay
    ELSE IF page = "panier" THEN ChangeDelay ELSE SearchDelay

\* History bookkeeping, per key.  A burst is a maximal run of edits in which
\* each edit follows the previous one by less than the window.
\*   val         value of the last edit (<< >> before the first edit)
\*   want        request value the last edit calls for (<< >>: no request)
\*   edits       number of edits
\*   wanted      number of edits that call for a request
\*   posts       number of requests sent
\*   burstPosts  number of requests sent since the current burst began
\*   spaced      every edit came more than the window after the previous one
\*   afterQuiet  every request was sent at least one window after the last edit
\*   own         every request carried the value of the last edit before it
\*   ownWant     every request carried the value its edit called for
\*   closed      every burst that was followed by another had exactly one request
\*   answered    id of the newest request whose success response was applied
NoEdits ==
    [val |-> << >>, want |-> << >>, edits |-> 0, wanted |-> 0, posts |-> 0,
     burstPosts |-> 0, spaced |-> TRUE, afterQuiet |-> TRUE, own |-> TRUE,
     ownWant |-> TRUE, closed |-> TRUE, answered |-> 0]
NoteEdit(key, v, want) ==
    LET g == dbc[key]
        first == g.val = << >>
        newBurst == first \/ quiet[key] >= Window
    IN  /\ dbc' = [dbc EXCEPT ![key] =
                     [val |-> <<v>>, want |-> want, edits |-> g.edits + 1,
                      wanted |-> g.wanted + (IF want = << >> THEN 0 ELSE 1),
                      posts |-> g.posts,
                      burstPosts |-> IF newBurst THEN 0 ELSE g.burstPosts,
                      spaced |-> g.spaced /\ (first \/ quiet[key] > Window),
                      afterQuiet |-> g.afterQuiet, own |-> g.own,
                      ownWant |-> g.ownWant,
                      closed |-> g.closed /\ (first \/ ~newBurst \/ g.burstPosts = 1),
                      answered |-> g.answered]]
        /\ quiet' = [quiet EXCEPT ![key] = 0]
NotePost(key, v) ==
    LET g == dbc[key] IN
    /\ dbc' = [dbc EXCEPT ![key] =
                 [g EXCEPT !.posts = @ + 1, !.burstPosts = @ + 1,
                           !.afterQuiet = @ /\ quiet[key] >= Window,
                           !.own = @ /\ g.val = <<v>>,
                           !.ownWant = @ /\ g.want = <<v>>]]
    /\ UNCHANGED quiet
\* history: the success response of request r is applied
NoteAnswer(r, ok) ==
    dbc' = [dbc EXCEPT ![r.key].answered = IF ok /\ r.id > @ THEN r.id ELSE @]
\* the handler that ran last: res is "" for a handler that is no response, and
\* for a response "neterr", "badjson", "refused" (success is not true) or "ok"
\* count is the panier_count of a decoded response
Event(act, op, res, count) == [act |-> act, op |-> op, res |-> res, count |-> count]

\* everything but the page, the widgets of the later pages and the history
siteVars == <<timers, nextId, inflight, nFetch, badge, panierLink, orderVars, catVars,
              cartVars, searchVars, alerts, reloaded, dbc, quiet>>

UserReady(p) == page = p /\ ~reloaded /\ NoTimerDue /\ nEdits < MaxEdits

\* ------------------------------------------------------- server responses
\* A fetch settles in one of three ways: the promise rejects ("neterr"), the
\* body is not JSON so response.json() rejects ("badjson"), or a decoded
\* object arrives ("data").  The fields a handler does not read are left
\* undefined, and so are the other fields of a response that is no success.
Outcomes == {"neterr", "badjson", "data"}
Flags == {Undefined, <<TRUE>>, <<FALSE>>}
Counts == {Undefined} \cup {<<n>> : n \in 0..MaxCount}
Amounts == {Undefined, <<1250>>}
Lignes == {Undefined, << << >> >>, << <<"B", "A">> >>}
Client1 == [nom |-> <<"a", "b", "c">>, tiers |-> 7]
Client2 == [nom |-> <<"a", "b", "d">>, tiers |-> 12]
ClientLists == {Undefined, << << >> >>, << <<Client1, Client2>> >>}
NoData ==
    [success |-> Undefined, panier_count |-> Undefined, total_ligne |-> Undefined,
     total_panier |-> Undefined, lignes_panier |-> Undefined,
     message |-> Undefined, clients |-> Undefined]
Refused == {[NoData EXCEPT !.success = f, !.message = <<"m">>] : f \in {Undefined, <<FALSE>>}}
Accepted(counts, lignes, totals, totalsLigne) ==
    {[success |-> <<TRUE>>, panier_count |-> c, total_ligne |-> tl,
      total_panier |-> tp, lignes_panier |-> l, message |-> <<"m">>,
      clients |-> Undefined] :
        c \in counts, l \in lignes, tp \in totals, tl \in totalsLigne}
SyncData == Refused \cup Accepted(Counts, {Undefined}, {Undefined}, {Undefined})
ViderData == Refused \cup Accepted({Undefined}, {Undefined}, {Undefined}, {Undefined})
AddData == Refused \cup Accepted(Counts, Lignes, Amounts, {Undefined})
ModifierData == Refused \cup Accepted(Counts, {Undefined}, Amounts, Amounts)
SupprimerData == Refused \cup Accepted(Counts, Lignes, Amounts, {Undefined})
\* the removal endpoint answers the panel's forms as it answers the cart page's
RecapLignes == Lignes \cup {<< <<"B">> >>}
RecapData == Refused \cup Accepted(Counts, RecapLignes, Amounts, {Undefined})
SearchData == {[NoData EXCEPT !.clients = c] : c \in ClientLists}
CartData == SyncData \cup ViderData \cup AddData \cup ModifierData
            \cup SupprimerData \cup RecapData

\* if (x) for a boolean or undefined x
Truthy(x) == Def(x) /\ x[1] = TRUE
\* x > 0 is false for undefined
Positive(x) == Def(x) /\ x[1] > 0
\* mutant: the handler does not test data.success
Applies_Always(outcome, d) == outcome = "data"
\* if (data.success) on a settled fetch
Applies(outcome, d) == outcome = "data" /\ Truthy(d.success)
Result(outcome, d) ==
    IF outcome # "data" THEN outcome ELSE IF Truthy(d.success) THEN "ok" ELSE "refused"
\* The anti-forgery token of the page.  CsrfInput is the value of the first
\* input[name="csrfmiddlewaretoken"] of the document and CsrfCookie the
\* csrftoken cookie (<< >> when absent).  The forms the server renders hold
\* the hidden field, so the document has one.
CsrfInput == <<"t", "o", "k">>
CsrfCookie == Undefined
\* the csrfmiddlewaretoken field of a form rendered by the server
FormToken == CsrfInput
\* mutant: getCSRFToken finds nothing
getCSRFToken_Empty == << >>
\* getCSRFToken(): the hidden field, else the cookie, else ''
getCSRFToken ==
    IF CsrfInput # Undefined THEN CsrfInput
    ELSE IF CsrfCookie # Undefined THEN CsrfCookie[1] ELSE << >>
\* const csrfToken of commander.js
csrfToken == CsrfInput
\* what a fetch sends besides its data: POST of a form's FormData with the
\* X-Requested-With header, POST with the X-Requested-With and X-CSRFToken
\* headers, or a plain GET
FormPost(token) == [xrw |-> TRUE, via |-> "field", token |-> token]
HeaderPost(token) == [xrw |-> TRUE, via |-> "header", token |-> token]
PlainGet == [xrw |-> FALSE, via |-> "none", token |-> << >>]
\* the request record of a fetch
Request(op, key, arg, csrf, confirmed) ==
    [id |-> nFetch + 1, op |-> op, key |-> key, arg |-> arg,
     xrw |-> csrf.xrw, csrf |-> [via |-> csrf.via, token |-> csrf.token],
     confirmed |-> confirmed]

\* ------------------------------------------------------------- order page
Prix == [r \in Refs |-> IF r = "A" THEN 150 ELSE 275]
TypedTexts == {<< >>, <<"-", "1">>}

RECURSIVE SumOver(_, _)
SumOver(S, f) ==
    IF S = {} THEN 0
    ELSE LET r == CHOOSE x \in S : TRUE IN f[r] + SumOver(S \ {r}, f)

\* calculerTotal over the inputs' values vals
TotalPrix(vals) == SumOver(Refs, [r \in Refs |-> Prix[r] * OrZero(ParseInt(vals[r]))])
TotalQte(vals) == SumOver(Refs, [r \in Refs |-> OrZero(ParseInt(vals[r]))])

notCommande == <<catVars, cartVars, searchVars, alerts, reloaded>>

\* mutant: syncPanier arms a new timer without clearing the pending one
syncPanier_NoClear(reference, quantite) ==
    /\ timers' = timers \cup {Timer(nextId, "sync", reference, SyncDelay, <<quantite>>)}
    /\ syncTimers' = [syncTimers EXCEPT ![reference] = nextId]
    /\ nextId' = nextId + 1
\* mutant: the request carries the quantity the field had before the edit
syncPanier_StaleQuantite(reference, quantite) ==
    /\ timers' = ClearTimeout(timers, syncTimers[reference])
                 \cup {Timer(nextId, "sync", reference, SyncDelay,
                              <<OrZero(ParseInt(ocInput[reference]))>>)}
    /\ syncTimers' = [syncTimers EXCEPT ![reference] = nextId]
    /\ nextId' = nextId + 1
\* syncPanier(reference, quantite): debounce part
syncPanier(reference, quantite) ==
    /\ timers' = ClearTimeout(timers, syncTimers[reference])
                 \cup {Timer(nextId, "sync", reference, SyncDelay, <<quantite>>)}
    /\ syncTimers' = [syncTimers EXCEPT ![reference] = nextId]
    /\ nextId' = nextId + 1

\* mutant: the totals are computed before the field takes its new value
InputListener_StaleTotal(ref, val) ==
    LET quantite == OrZero(ParseInt(val))
        vals == [ocInput EXCEPT ![ref] = val]
    IN  /\ ocInput' = vals
        /\ sousTotal' = [sousTotal EXCEPT ![ref] = ToFixed2(Prix[ref] * quantite)]
        /\ totalCommande' = ToFixed2(TotalPrix(ocInput))
        /\ totalQuantite' = IntToStr(TotalQte(ocInput))
        /\ syncPanier(ref, quantite)
        /\ NoteEdit(ref, OrZero(ParseInt(val)), <<OrZero(ParseInt(val))>>)
        /\ nEdits' = nEdits + 1
        /\ UNCHANGED <<page, widgetVars, inflight, nFetch, badge, panierLink, notCommande>>
\* 'input' listener of a .quantite-commande-input whose value is now val
InputListener(ref, val) ==
    LET quantite == OrZero(ParseInt(val))
        vals == [ocInput EXCEPT ![ref] = val]
    IN  /\ ocInput' = vals
        /\ sousTotal' = [sousTotal EXCEPT ![ref] = ToFixed2(Prix[ref] * quantite)]
        /\ totalCommande' = ToFixed2(TotalPrix(vals))
        /\ totalQuantite' = IntToStr(TotalQte(vals))
        /\ syncPanier(ref, quantite)
        /\ NoteEdit(ref, OrZero(ParseInt(val)), <<OrZero(ParseInt(val))>>)
        /\ nEdits' = nEdits + 1
        /\ UNCHANGED <<page, widgetVars, inflight, nFetch, badge, panierLink, notCommande>>

\* The elements the DOMContentLoaded listeners use without a test.  On the
\* order page the listener stops at the first one that is absent:
\* effacerBtn.addEventListener (line 263), querySelector(...).value (line 272)
\* and getElementById('vider-panier-btn').addEventListener (line 384); the
\* quantity listeners are attached in between (line 333), the plus and minus
\* listeners after the last one (line 449).
AbsentOn(p) ==
    IF p = "commande" THEN {"effacer-recherche", "csrfmiddlewaretoken", "vider-panier-btn"}
    ELSE IF p = "countdown" THEN {"countdown-time"} ELSE {}
\* the user types a value in a quantity field that has no 'input' listener
TypeSansListener(ref, val) ==
    /\ UserReady("commande") /\ absent \in {"effacer-recherche", "csrfmiddlewaretoken"}
    /\ ocInput' = [ocInput EXCEPT ![ref] = val]
    /\ nEdits' = nEdits + 1
    /\ last' = Event("input", "none", "", << >>)
    /\ UNCHANGED <<page, widgetVars, timers, nextId, inflight, nFetch, badge, panierLink,
                   sousTotal, totalCommande, totalQuantite, syncTimers, notCommande,
                   dbc, quiet>>
\* the user types a value in a quantity field
TypeQuantite(ref, val) ==
    /\ UserReady("commande") /\ absent \in {"none", "vider-panier-btn"}
    /\ InputListener(ref, val)
    /\ last' = Event("input", "sync", "", << >>)

\* click on .btn-plus
BtnPlus(ref) ==
    /\ UserReady("commande") /\ absent = "none"
    /\ InputListener(ref, IntToStr(OrZero(ParseInt(ocInput[ref])) + 1))
    /\ last' = Event("plus", "sync", "", << >>)

\* click on .btn-moins
BtnMoins(ref) ==
    /\ UserReady("commande") /\ absent = "none"
    /\ LET val == OrZero(ParseInt(ocInput[ref])) IN
       IF val > 0
       THEN InputListener(ref, IntToStr(val - 1))
       ELSE /\ nEdits' = nEdits + 1
            /\ UNCHANGED <<page, widgetVars, timers, nextId, inflight, nFetch, badge, panierLink,
                           orderVars, notCommande, dbc, quiet>>
    /\ last' = Event("moins", "sync", "", << >>)

\* callback of the timer armed by syncPanier
SyncTimerFire(t) ==
    /\ page = "commande" /\ t \in timers /\ t.chan = "sync" /\ t.remaining <= 0
    /\ timers' = timers \ {t}
    /\ inflight' = inflight \cup {Request("sync", t.key, t.arg, HeaderPost(csrfToken), FALSE)}
    /\ nFetch' = nFetch + 1
    /\ NotePost(t.key, t.arg[1])
    /\ last' = Event("fire", "sync", "", << >>)
    /\ UNCHANGED <<page, widgetVars, nextId, badge, panierLink, orderVars, notCommande, nEdits>>

\* mutant: a badge is created without looking for the one in the document
SyncBadge_AlwaysCreates(b, count) ==
    IF Positive(count)
    THEN (IF panierLink THEN Append(b, IntToStr(count[1])) ELSE b)
    ELSE IF b # << >> THEN Tail(b) ELSE b
\* badge update written inline in syncPanier's response handler, applied to
\* b, the texts of the elements with id panier-badge in document order
SyncBadge(b, count) ==
    IF Positive(count)
    THEN IF b = << >>
         THEN (IF panierLink THEN Append(b, IntToStr(count[1])) ELSE b)
         ELSE [b EXCEPT ![1] = IntToStr(count[1])]
    ELSE IF b # << >> THEN Tail(b) ELSE b

\* continuation of the fetch issued by syncPanier
SyncResponse(r, outcome, d) ==
    /\ page = "commande" /\ r \in inflight /\ r.op = "sync"
    /\ outcome = "data" \/ d = NoData
    /\ inflight' = inflight \ {r}
    /\ badge' = IF Applies(outcome, d) THEN SyncBadge(badge, d.panier_count) ELSE badge
    /\ NoteAnswer(r, Applies(outcome, d))
    /\ last' = Event("response", "sync", Result(outcome, d), d.panier_count)
    /\ UNCHANGED <<page, widgetVars, timers, nextId, nFetch, panierLink, orderVars, notCommande,
                   quiet, nEdits>>

\* click on #vider-panier-btn
ViderClick ==
    /\ UserReady("commande") /\ absent = "none"
    /\ inflight' = inflight \cup {Request("vider", "", << >>, HeaderPost(csrfToken), FALSE)}
    /\ nFetch' = nFetch + 1
    /\ nEdits' = nEdits + 1
    /\ last' = Event("click", "vider", "", << >>)
    /\ UNCHANGED <<page, widgetVars, timers, nextId, badge, panierLink, orderVars, notCommande,
                   dbc, quiet>>

\* mutant: the success handler leaves the badge in place
ViderResponse_KeepsBadge(r, outcome, d) ==
    /\ page = "commande" /\ r \in inflight /\ r.op = "vider"
    /\ outcome = "data" \/ d = NoData
    /\ inflight' = inflight \ {r}
    /\ IF Applies(outcome, d)
       THEN LET vals == [ref \in Refs |-> IntToStr(0)] IN
            /\ ocInput' = vals
            /\ sousTotal' = [ref \in Refs |-> <<"0", ".", "0", "0", " ", "EUR">>]
            /\ totalCommande' = ToFixed2(TotalPrix(vals))
            /\ totalQuantite' = IntToStr(TotalQte(vals))
            /\ UNCHANGED badge
       ELSE UNCHANGED <<ocInput, sousTotal, totalCommande, totalQuantite, badge>>
    /\ last' = Event("response", "vider", Result(outcome, d), d.panier_count)
    /\ UNCHANGED <<page, widgetVars, timers, nextId, nFetch, panierLink, syncTimers, notCommande,
                   dbc, quiet, nEdits>>
\* continuation of the fetch issued by the #vider-panier-btn listener
ViderResponse(r, outcome, d) ==
    /\ page = "commande" /\ r \in inflight /\ r.op = "vider"
    /\ outcome = "data" \/ d = NoData
    /\ inflight' = inflight \ {r}
    /\ IF Applies(outcome, d)
       THEN LET vals == [ref \in Refs |-> IntToStr(0)] IN
            /\ ocInput' = vals
            /\ sousTotal' = [ref \in Refs |-> <<"0", ".", "0", "0", " ", "EUR">>]
            /\ totalCommande' = ToFixed2(TotalPrix(vals))
            /\ totalQuantite' = IntToStr(TotalQte(vals))
            /\ badge' = IF badge # << >> THEN Tail(badge) ELSE badge
       ELSE UNCHANGED <<ocInput, sousTotal, totalCommande, totalQuantite, badge>>
    /\ last' = Event("response", "vider", Result(outcome, d), d.panier_count)
    /\ UNCHANGED <<page, widgetVars, timers, nextId, nFetch, panierLink, syncTimers, notCommande,
                   dbc, quiet, nEdits>>

\* ------------------------------------------------- panier.js: shared parts
\* mutant: the badge is not removed when the count is 0
updatePanierBadge_NoRemove(b, count) ==
    IF Positive(count) /\ (b # << >> \/ panierLink) THEN <<IntToStr(count[1])>> ELSE b
\* updatePanierBadge(count) applied to b, the texts of the elements with id
\* panier-badge in document order: getElementById returns the first one
updatePanierBadge(b, count) ==
    IF b # << >>
    THEN (IF Positive(count) THEN [b EXCEPT ![1] = IntToStr(count[1])] ELSE Tail(b))
    ELSE (IF Positive(count) /\ panierLink THEN Append(b, IntToStr(count[1])) ELSE b)

\* document.querySelector('.alert.position-fixed'): the first one in the document
FirstAlert(al) == CHOOSE a \in al : \A b \in al : a.id <= b.id

\* mutant: showNotification does not remove the notification already shown
showNotification_NoRemove(ts, message, type) ==
    /\ alerts' = alerts \cup {[id |-> nextId, type |-> type, msg |-> message]}
    /\ timers' = ts \cup {Timer(nextId, "alert", "", AlertDelay, << >>)}
    /\ nextId' = nextId + 1
\* showNotification(message, type), with ts the timers left by the caller
showNotification(ts, message, type) ==
    /\ alerts' = (IF alerts = {} THEN alerts ELSE alerts \ {FirstAlert(alerts)})
                 \cup {[id |-> nextId, type |-> type, msg |-> message]}
    /\ timers' = ts \cup {Timer(nextId, "alert", "", AlertDelay, << >>)}
    /\ nextId' = nextId + 1

\* mutant: the callback removes whichever notification is shown
AlertTimerFire_RemovesShown(t) ==
    /\ ~reloaded /\ t \in timers /\ t.chan = "alert" /\ t.remaining <= 0
    /\ timers' = timers \ {t}
    /\ alerts' = {}
    /\ last' = Event("fire", "alert", "", << >>)
    /\ UNCHANGED <<page, widgetVars, nextId, inflight, nFetch, badge, panierLink, orderVars,
                   catVars, cartVars, searchVars, reloaded, dbc, quiet, nEdits>>
\* callback of the auto-close timer armed by showNotification
AlertTimerFire(t) ==
    /\ ~reloaded /\ t \in timers /\ t.chan = "alert" /\ t.remaining <= 0
    /\ timers' = timers \ {t}
    /\ alerts' = {a \in alerts : a.id # t.id}
    /\ last' = Event("fire", "alert", "", << >>)
    /\ UNCHANGED <<page, widgetVars, nextId, inflight, nFetch, badge, panierLink, orderVars,
                   catVars, cartVars, searchVars, reloaded, dbc, quiet, nEdits>>

Generic == <<"Une erreur est survenue">>
\* text written by element.textContent = count; textContent is a nullable
\* string, for which undefined is written as the empty text
CountText(count) == IF Def(count) THEN IntToStr(count[1]) ELSE << >>

\* updateRecapPanier(lignes, total) applied to the panel rc; only the
\* catalogue page has #recap-panier-content.  gen counts the times innerHTML
\* was replaced: the forms of an earlier content are no longer in the document
\* token is the csrfmiddlewaretoken value of the panel's forms.
updateRecapPanier(rc, lignes, total) ==
    IF page # "catalogue" THEN rc
    ELSE IF lignes # << >>
         THEN [vide |-> FALSE, items |-> lignes, total |-> ToFixed2(total[1]),
               gen |-> rc.gen + 1, token |-> getCSRFToken]
         ELSE [vide |-> TRUE, items |-> << >>, total |-> << >>, gen |-> rc.gen + 1,
               token |-> rc.token]
\* total.toFixed(2) in updateRecapPanier raises a TypeError
RecapThrows(lignes, total) == page = "catalogue" /\ lignes # << >> /\ ~Def(total)

\* ---------------------------------------------------- catalogue (panier.js)
OriginalHtml == <<"Ajouter">>
notCatalogue == <<orderVars, cartVars, searchVars, reloaded>>

\* mutant: the loading mark and the disabled state are left on the button
RestoreButton_KeepsLoading(originalContent) ==
    [disabled |-> TRUE, loading |-> TRUE, html |-> originalContent]
\* the button once the request has settled
RestoreButton(originalContent) ==
    [disabled |-> FALSE, loading |-> FALSE, html |-> originalContent]

\* 'submit' listener of the .ajouter-panier-form; a form whose submit button is
\* disabled cannot be submitted by the user
AddSubmit ==
    /\ UserReady("catalogue")
    /\ ~addBtn.disabled
    /\ addBtn' = [addBtn EXCEPT !.disabled = TRUE, !.loading = TRUE]
    /\ inflight' = inflight \cup {Request("add", "F", addBtn.html, FormPost(FormToken), FALSE)}
    /\ nFetch' = nFetch + 1
    /\ nEdits' = nEdits + 1
    /\ last' = Event("submit", "add", "", << >>)
    /\ UNCHANGED <<page, widgetVars, timers, nextId, badge, panierLink, recap, alerts,
                   notCatalogue, dbc, quiet>>

\* mutant: the badge is updated before data.success is tested
AddResponse_BadgeFirst(r, outcome, d) ==
    /\ page = "catalogue" /\ ~reloaded /\ r \in inflight /\ r.op = "add"
    /\ outcome = "data" \/ d = NoData
    /\ inflight' = inflight \ {r}
    /\ addBtn' = RestoreButton(r.arg)
    /\ LET ok == Applies(outcome, d)
           thrown == ok /\ Def(d.lignes_panier)
                     /\ RecapThrows(d.lignes_panier[1], d.total_panier)
       IN  /\ badge' = IF outcome = "data" THEN updatePanierBadge(badge, d.panier_count)
                       ELSE badge
           /\ recap' = IF ok /\ Def(d.lignes_panier) /\ ~thrown
                       THEN updateRecapPanier(recap, d.lignes_panier[1], d.total_panier)
                       ELSE recap
           /\ IF outcome # "data" \/ thrown
              THEN showNotification(timers, Generic, "danger")
              ELSE IF ok THEN showNotification(timers, d.message, "success")
              ELSE showNotification(timers, d.message, "warning")
    /\ last' = Event("response", "add", Result(outcome, d), d.panier_count)
    /\ UNCHANGED <<page, widgetVars, nFetch, panierLink, notCatalogue, dbc, quiet, nEdits>>
\* continuation of the fetch issued by the .ajouter-panier-form listener
AddResponse(r, outcome, d) ==
    /\ page = "catalogue" /\ ~reloaded /\ r \in inflight /\ r.op = "add"
    /\ outcome = "data" \/ d = NoData
    /\ inflight' = inflight \ {r}
    /\ addBtn' = RestoreButton(r.arg)
    /\ LET ok == Applies(outcome, d)
           thrown == ok /\ Def(d.lignes_panier)
                     /\ RecapThrows(d.lignes_panier[1], d.total_panier)
       IN  /\ badge' = IF ok THEN updatePanierBadge(badge, d.panier_count) ELSE badge
           /\ recap' = IF ok /\ Def(d.lignes_panier) /\ ~thrown
                       THEN updateRecapPanier(recap, d.lignes_panier[1], d.total_panier)
                       ELSE recap
           /\ IF outcome # "data" \/ thrown
              THEN showNotification(timers, Generic, "danger")
              ELSE IF ok THEN showNotification(timers, d.message, "success")
              ELSE showNotification(timers, d.message, "warning")
    /\ last' = Event("response", "add", Result(outcome, d), d.panier_count)
    /\ UNCHANGED <<page, widgetVars, nFetch, panierLink, notCatalogue, dbc, quiet, nEdits>>

RECURSIVE Without(_, _)
\* the list s without the entries equal to x
Without(s, x) ==
    IF s = << >> THEN << >>
    ELSE (IF Head(s) = x THEN << >> ELSE <<Head(s)>>) \o Without(Tail(s), x)
InList(s, x) == \E i \in 1..Len(s) : s[i] = x

\* 'submit' listener of a .supprimer-recap-form (attachSupprimerRecapListeners)
RecapSubmit(ref) ==
    /\ UserReady("catalogue")
    /\ InList(recap.items, ref)
    /\ inflight' = inflight \cup {Request("supprimerRecap", ref, <<recap.gen>>,
                                         FormPost(recap.token), FALSE)}
    /\ nFetch' = nFetch + 1
    /\ nEdits' = nEdits + 1
    /\ last' = Event("submit", "supprimerRecap", "", << >>)
    /\ UNCHANGED <<page, widgetVars, timers, nextId, badge, panierLink, catVars, alerts,
                   notCatalogue, dbc, quiet>>

\* continuation of the fetch issued by a .supprimer-recap-form listener
RecapResponse(r, outcome, d) ==
    /\ page = "catalogue" /\ ~reloaded /\ r \in inflight /\ r.op = "supprimerRecap"
    /\ outcome = "data" \/ d = NoData
    /\ inflight' = inflight \ {r}
    /\ LET ok == Applies(outcome, d)
           emptied == d.panier_count = <<0>>
           thrown == ok /\ ~emptied /\ ~recap.vide /\ ~Def(d.total_panier)
       IN  /\ badge' = IF ok THEN updatePanierBadge(badge, d.panier_count) ELSE badge
           /\ recap' = IF ~ok THEN recap
                       ELSE IF emptied THEN updateRecapPanier(recap, << >>, <<0>>)
                       ELSE [recap EXCEPT
                               !.items = IF r.arg = <<recap.gen>>
                                         THEN Without(@, r.key) ELSE @,
                               !.total = IF recap.vide \/ thrown THEN @
                                         ELSE ToFixed2(d.total_panier[1])]
           /\ IF outcome # "data" \/ thrown
              THEN showNotification(timers, Generic, "danger")
              ELSE IF ok THEN showNotification(timers, d.message, "success")
              ELSE showNotification(timers,
                       IF Def(d.message) THEN d.message ELSE Generic, "danger")
    /\ last' = Event("response", "supprimerRecap", Result(outcome, d), d.panier_count)
    /\ UNCHANGED <<page, widgetVars, nFetch, panierLink, addBtn, notCatalogue, dbc, quiet, nEdits>>

\* ---------------------------------------------------- cart page (panier.js)
\* data-stock of each .quantite-input: << >> when the attribute is absent
Stock == [r \in Refs |-> IF r = "A" THEN <<"1">> ELSE << >>]
CartTexts == {<<"0">>, <<"2">>}
notPanier == <<orderVars, catVars, searchVars>>

\* the quantity a change of the field to val calls for: capped at data-stock
Capped(ref, val) ==
    IF Stock[ref] # << >> /\ Def(ParseInt(val)) /\ Def(ParseInt(Stock[ref]))
       /\ ParseInt(val)[1] > ParseInt(Stock[ref])[1]
    THEN Stock[ref] ELSE val

\* 'change' listener of a .quantite-input
ChangeQuantite(ref, val) ==
    /\ UserReady("panier")
    /\ ref \in rows
    /\ qInput' = [qInput EXCEPT ![ref] = val]
    /\ timers' = ClearTimeout(timers, timeoutId[ref])
                 \cup {Timer(nextId, "change", ref, ChangeDelay, << >>)}
    /\ timeoutId' = [timeoutId EXCEPT ![ref] = nextId]
    /\ nextId' = nextId + 1
    /\ NoteEdit(ref, val, <<Capped(ref, val)>>)
    /\ nEdits' = nEdits + 1
    /\ last' = Event("change", "modifier", "", << >>)
    /\ UNCHANGED <<page, widgetVars, inflight, nFetch, badge, panierLink, alerts, rows,
                   ligneTotal, panierTotal, nbArticles, reloaded, notPanier>>

\* mutant: the warning is shown but the field keeps the entered quantity
ChangeTimerFire_NoCap(t) ==
    /\ page = "panier" /\ ~reloaded
    /\ t \in timers /\ t.chan = "change" /\ t.remaining <= 0
    /\ LET ref == t.key
           hasStock == Stock[ref] # << >>
           stockMax == ParseInt(Stock[ref])
           quantiteSaisie == ParseInt(qInput[ref])
           over == hasStock /\ Def(stockMax) /\ Def(quantiteSaisie)
                   /\ quantiteSaisie[1] > stockMax[1]
           value == qInput[ref]
       IN  /\ qInput' = [qInput EXCEPT ![ref] = value]
           /\ IF over
              THEN showNotification(timers \ {t},
                       <<"Quantite maximale disponible : ">> \o IntToStr(stockMax[1]), "warning")
              ELSE /\ timers' = timers \ {t}
                   /\ UNCHANGED <<alerts, nextId>>
           /\ inflight' = inflight \cup {Request("modifier", ref, <<value>>, FormPost(FormToken), FALSE)}
           /\ NotePost(ref, value)
    /\ nFetch' = nFetch + 1
    /\ last' = Event("fire", "modifier", "", << >>)
    /\ UNCHANGED <<page, widgetVars, badge, panierLink, rows, ligneTotal, panierTotal,
                   nbArticles, timeoutId, reloaded, notPanier, nEdits>>
\* callback of the timer armed by the 'change' listener, submitQuantiteForm's
\* fetch included
ChangeTimerFire(t) ==
    /\ page = "panier" /\ ~reloaded
    /\ t \in timers /\ t.chan = "change" /\ t.remaining <= 0
    /\ LET ref == t.key
           hasStock == Stock[ref] # << >>
           stockMax == ParseInt(Stock[ref])
           quantiteSaisie == ParseInt(qInput[ref])
           over == hasStock /\ Def(stockMax) /\ Def(quantiteSaisie)
                   /\ quantiteSaisie[1] > stockMax[1]
           value == IF over THEN IntToStr(stockMax[1]) ELSE qInput[ref]
       IN  /\ qInput' = [qInput EXCEPT ![ref] = value]
           /\ IF over
              THEN showNotification(timers \ {t},
                       <<"Quantite maximale disponible : ">> \o value, "warning")
              ELSE /\ timers' = timers \ {t}
                   /\ UNCHANGED <<alerts, nextId>>
           /\ inflight' = inflight \cup {Request("modifier", ref, <<value>>, FormPost(FormToken), FALSE)}
           /\ NotePost(ref, value)
    /\ nFetch' = nFetch + 1
    /\ last' = Event("fire", "modifier", "", << >>)
    /\ UNCHANGED <<page, widgetVars, badge, panierLink, rows, ligneTotal, panierTotal,
                   nbArticles, timeoutId, reloaded, notPanier, nEdits>>

\* mutant: only a negative quantity removes the row
QuantiteNulle_Negative(quantite) == Def(quantite) /\ quantite[1] < 0
\* parseInt(quantiteInput.value) <= 0, false for NaN
QuantiteNulle(quantite) == Def(quantite) /\ quantite[1] <= 0

\* continuation of submitQuantiteForm's fetch
ModifierResponse(r, outcome, d) ==
    /\ page = "panier" /\ ~reloaded /\ r \in inflight /\ r.op = "modifier"
    /\ outcome = "data" \/ d = NoData
    /\ inflight' = inflight \ {r}
    /\ LET ok == Applies(outcome, d)
           thrown == ok /\ ~Def(d.total_panier)
           done == ok /\ ~thrown
           quantite == ParseInt(qInput[r.key])
           remove == done /\ QuantiteNulle(quantite)
       IN  /\ ligneTotal' = IF ok /\ Def(d.total_ligne)
                            THEN [ligneTotal EXCEPT ![r.key] = ToFixed2(d.total_ligne[1])]
                            ELSE ligneTotal
           /\ badge' = IF ok THEN updatePanierBadge(badge, d.panier_count) ELSE badge
           /\ panierTotal' = IF done THEN ToFixed2(d.total_panier[1]) ELSE panierTotal
           /\ nbArticles' = IF done THEN CountText(d.panier_count) ELSE nbArticles
           /\ rows' = IF remove THEN rows \ {r.key} ELSE rows
           /\ reloaded' = (remove /\ d.panier_count = <<0>>)
    /\ NoteAnswer(r, Applies(outcome, d))
    /\ last' = Event("response", "modifier", Result(outcome, d), d.panier_count)
    /\ UNCHANGED <<page, widgetVars, timers, nextId, nFetch, panierLink, alerts, qInput,
                   timeoutId, notPanier, quiet, nEdits>>

\* 'submit' listener of a .supprimer-ligne-form; accept is the answer to confirm()
SupprimerSubmit(ref, accept) ==
    /\ UserReady("panier")
    /\ ref \in rows
    /\ IF accept
       THEN /\ inflight' = inflight \cup {Request("supprimer", ref, << >>, FormPost(FormToken), TRUE)}
            /\ nFetch' = nFetch + 1
       ELSE UNCHANGED <<inflight, nFetch>>
    /\ nEdits' = nEdits + 1
    /\ last' = Event(IF accept THEN "submit" ELSE "declined", "supprimer", "", << >>)
    /\ UNCHANGED <<page, widgetVars, timers, nextId, badge, panierLink, alerts, cartVars,
                   reloaded, notPanier, dbc, quiet>>

\* continuation of the fetch issued by a .supprimer-ligne-form listener
SupprimerResponse(r, outcome, d) ==
    /\ page = "panier" /\ ~reloaded /\ r \in inflight /\ r.op = "supprimer"
    /\ outcome = "data" \/ d = NoData
    /\ inflight' = inflight \ {r}
    /\ LET ok == Applies(outcome, d)
           thrown == ok /\ ~Def(d.total_panier)
           done == ok /\ ~thrown
       IN  /\ rows' = IF ok THEN rows \ {r.key} ELSE rows
           /\ badge' = IF ok THEN updatePanierBadge(badge, d.panier_count) ELSE badge
           /\ panierTotal' = IF done THEN ToFixed2(d.total_panier[1]) ELSE panierTotal
           /\ nbArticles' = IF done THEN CountText(d.panier_count) ELSE nbArticles
           /\ IF outcome # "data" \/ thrown
              THEN showNotification(timers, Generic, "danger")
              ELSE IF ok THEN showNotification(timers, d.message, "success")
              ELSE UNCHANGED <<alerts, timers, nextId>>
           /\ reloaded' = (done /\ d.panier_count = <<0>>)
    /\ last' = Event("response", "supprimer", Result(outcome, d), d.panier_count)
    /\ UNCHANGED <<page, widgetVars, nFetch, panierLink, qInput, ligneTotal, timeoutId,
                   notPanier, dbc, quiet, nEdits>>

\* -------------------------------------------- inscription: initClientSearch
SearchTexts == {<<"a", " ">>, <<"a", "b">>, <<" ", "a", "b">>, Client2.nom}
NoResults == [kind |-> "empty", items |-> << >>]
notInscription == <<orderVars, catVars, cartVars, alerts, reloaded, badge, panierLink>>

\* mutant: a short query leaves the pending search armed
SearchInput_NoCancel(val) ==
    /\ UserReady("inscription")
    /\ searchValue' = val
    /\ LET query == Trim(val) IN
       IF Len(query) < MinQuery
       THEN /\ results' = NoResults
            /\ UNCHANGED <<timers, debounceTimer, nextId>>
       ELSE /\ timers' = ClearTimeout(timers, debounceTimer)
                         \cup {Timer(nextId, "search", "search", SearchDelay, <<query>>)}
            /\ debounceTimer' = nextId
            /\ nextId' = nextId + 1
            /\ UNCHANGED results
    /\ NoteEdit("search", Trim(val), IF Len(Trim(val)) >= MinQuery THEN <<Trim(val)>> ELSE << >>)
    /\ nEdits' = nEdits + 1
    /\ last' = Event("input", "search", "", << >>)
    /\ UNCHANGED <<page, widgetVars, inflight, nFetch, hiddenValue, selectedDiv, notInscription>>
\* 'input' listener of #client-search
SearchInput(val) ==
    /\ UserReady("inscription")
    /\ searchValue' = val
    /\ LET query == Trim(val) IN
       IF Len(query) < MinQuery
       THEN /\ timers' = ClearTimeout(timers, debounceTimer)
            /\ results' = NoResults
            /\ UNCHANGED <<debounceTimer, nextId>>
       ELSE /\ timers' = ClearTimeout(timers, debounceTimer)
                         \cup {Timer(nextId, "search", "search", SearchDelay, <<query>>)}
            /\ debounceTimer' = nextId
            /\ nextId' = nextId + 1
            /\ UNCHANGED results
    /\ NoteEdit("search", Trim(val), IF Len(Trim(val)) >= 2 THEN <<Trim(val)>> ELSE << >>)
    /\ nEdits' = nEdits + 1
    /\ last' = Event("input", "search", "", << >>)
    /\ UNCHANGED <<page, widgetVars, inflight, nFetch, hiddenValue, selectedDiv, notInscription>>

\* callback of the timer armed by the 'input' listener
SearchTimerFire(t) ==
    /\ page = "inscription" /\ t \in timers /\ t.chan = "search" /\ t.remaining <= 0
    /\ timers' = timers \ {t}
    /\ inflight' = inflight \cup {Request("search", "search", t.arg, PlainGet, FALSE)}
    /\ nFetch' = nFetch + 1
    /\ NotePost("search", t.arg[1])
    /\ last' = Event("fire", "search", "", << >>)
    /\ UNCHANGED <<page, widgetVars, nextId, searchVars, notInscription, nEdits>>

\* continuation of the search fetch
SearchResponse(r, outcome, d) ==
    /\ page = "inscription" /\ r \in inflight /\ r.op = "search"
    /\ outcome = "data" \/ d = NoData
    /\ inflight' = inflight \ {r}
    /\ results' = IF outcome # "data" \/ ~Def(d.clients)
                  THEN [kind |-> "error", items |-> << >>]
                  ELSE IF d.clients[1] = << >>
                  THEN [kind |-> "none", items |-> << >>]
                  ELSE [kind |-> "list", items |-> d.clients[1]]
    /\ last' = Event("response", "search",
                     IF outcome = "data" /\ Def(d.clients) THEN "ok" ELSE outcome, << >>)
    /\ UNCHANGED <<page, widgetVars, timers, nextId, nFetch, searchValue, hiddenValue,
                   selectedDiv, debounceTimer, notInscription, dbc, quiet, nEdits>>

\* mutant: the listener stores the name in the hidden field
ResultClick_NameAsTier(i) ==
    /\ UserReady("inscription")
    /\ results.kind = "list" /\ i \in 1..Len(results.items)
    /\ LET client == results.items[i] IN
       /\ hiddenValue' = client.nom
       /\ searchValue' = client.nom
       /\ selectedDiv' = <<client.nom, IntToStr(client.tiers)>>
    /\ results' = NoResults
    /\ nEdits' = nEdits + 1
    /\ last' = Event("click", "result", "", << >>)
    /\ UNCHANGED <<page, widgetVars, timers, nextId, inflight, nFetch, debounceTimer,
                   notInscription, dbc, quiet>>
\* 'click' listener of the i-th result item
ResultClick(i) ==
    /\ UserReady("inscription")
    /\ results.kind = "list" /\ i \in 1..Len(results.items)
    /\ LET client == results.items[i] IN
       /\ hiddenValue' = IntToStr(client.tiers)
       /\ searchValue' = client.nom
       /\ selectedDiv' = <<client.nom, IntToStr(client.tiers)>>
    /\ results' = NoResults
    /\ nEdits' = nEdits + 1
    /\ last' = Event("click", "result", "", << >>)
    /\ UNCHANGED <<page, widgetVars, timers, nextId, inflight, nFetch, debounceTimer,
                   notInscription, dbc, quiet>>

\* mutant: any click clears the results
DocumentClick_AlwaysClears(target) ==
    /\ UserReady("inscription")
    /\ results' = NoResults
    /\ nEdits' = nEdits + 1
    /\ last' = Event("click", target, "", << >>)
    /\ UNCHANGED <<page, widgetVars, timers, nextId, inflight, nFetch, searchValue, hiddenValue,
                   selectedDiv, debounceTimer, notInscription, dbc, quiet>>
\* 'click' listener of the document, for a click on target
DocumentClick(target) ==
    /\ UserReady("inscription")
    /\ results' = IF target = "outside" THEN NoResults ELSE results
    /\ nEdits' = nEdits + 1
    /\ last' = Event("click", target, "", << >>)
    /\ UNCHANGED <<page, widgetVars, timers, nextId, inflight, nFetch, searchValue, hiddenValue,
                   selectedDiv, debounceTimer, notInscription, dbc, quiet>>

\* ------------------------------------------------------------ date fields
\* (date-calcul.js; commander.js holds the same function for the order page)
\* A Date is its time value in hours since 1970-01-01T00:00Z; the value of a
\* date input is the text YYYY-MM-DD, or the empty text.
HoursPerDay == 24
\* day number of the civil date <<y, m, d>> (MakeDay)
DaysFromCivil(c) ==
    LET y == IF c[2] <= 2 THEN c[1] - 1 ELSE c[1]
        era == y \div 400
        yoe == y - era * 400
        mp == IF c[2] > 2 THEN c[2] - 3 ELSE c[2] + 9
        doy == (153 * mp + 2) \div 5 + c[3] - 1
        doe == yoe * 365 + yoe \div 4 - yoe \div 100 + doy
    IN  era * 146097 + doe - 719468
\* civil date of a day number (YearFromTime, MonthFromTime, DateFromTime)
CivilFromDays(n) ==
    LET z == n + 719468
        era == z \div 146097
        doe == z - era * 146097
        yoe == (doe - doe \div 1460 + doe \div 36524 - doe \div 146096) \div 365
        doy == doe - (365 * yoe + yoe \div 4 - yoe \div 100)
        mp == (5 * doy + 2) \div 153
        d == doy - (153 * mp + 2) \div 5 + 1
        m == IF mp < 10 THEN mp + 3 ELSE mp - 9
    IN  <<yoe + era * 400 + (IF m <= 2 THEN 1 ELSE 0), m, d>>
\* n written with at least w digits
RECURSIVE PadStart(_, _)
PadStart(t, w) == IF Len(t) >= w THEN t ELSE PadStart(<<"0">> \o t, w)
\* the text YYYY-MM-DD of a civil date
DateText(c) ==
    PadStart(NatToStr(c[1]), 4) \o <<"-">> \o PadStart(NatToStr(c[2]), 2)
    \o <<"-">> \o PadStart(NatToStr(c[3]), 2)
\* the civil date a text YYYY-MM-DD names
ParseDate(t) ==
    <<DigitsValue(SubSeq(t, 1, 4), 0), DigitsValue(SubSeq(t, 6, 7), 0),
      DigitsValue(SubSeq(t, 9, 10), 0)>>
\* The browser's time zone: UTC, or Europe/Paris with its 2024 transitions
\* (summer time from 2024-03-31T01:00Z to 2024-10-27T01:00Z).
Zones == {"UTC", "Europe/Paris"}
DstStart == DaysFromCivil(<<2024, 3, 31>>) * HoursPerDay + 1
DstEnd == DaysFromCivil(<<2024, 10, 27>>) * HoursPerDay + 1
\* offset of local time at the instant t
Offset(zone, t) ==
    IF zone = "UTC" THEN 0 ELSE IF t >= DstStart /\ t < DstEnd THEN 2 ELSE 1
\* offset by which a local time lt is read; a skipped or repeated local time
\* is read with the offset in force before the transition
LocalOffset(zone, lt) ==
    IF zone = "UTC" THEN 0 ELSE IF lt >= DstStart + 2 /\ lt < DstEnd + 2 THEN 2 ELSE 1
\* new Date(text) for a date-only text: midnight UTC of that day
NewDate(t) == DaysFromCivil(ParseDate(t)) * HoursPerDay
\* date.getDate(): day of the month in local time
GetDate(zone, t) == CivilFromDays((t + Offset(zone, t)) \div HoursPerDay)[3]
\* date.setDate(n): the local time with its day of the month replaced
SetDate(zone, t, n) ==
    LET lt == t + Offset(zone, t)
        c == CivilFromDays(lt \div HoursPerDay)
        nlt == (DaysFromCivil(<<c[1], c[2], 1>>) + n - 1) * HoursPerDay + (lt % HoursPerDay)
    IN  nlt - LocalOffset(zone, nlt)
\* date.toISOString().split('T')[0]: the day in UTC
ToISODate(t) == DateText(CivilFromDays(t \div HoursPerDay))
\* the value calculerDateDepart writes to #date-depart-camions
calculerDateDepart(zone, livraison) ==
    IF livraison # << >>
    THEN LET date == NewDate(livraison)
         IN  ToISODate(SetDate(zone, date, GetDate(zone, date) - DaysBack))
    ELSE << >>
\* the delivery dates a server-rendered form can hold: any day of 2024
DatesInitiales ==
    {DateText(CivilFromDays(n)) :
        n \in DaysFromCivil(<<2024, 1, 1>>)..DaysFromCivil(<<2024, 12, 31>>)}
\* the delivery dates the user picks
DatesSaisies ==
    {DateText(c) : c \in {<<2024, 3, 10>>, <<2024, 1, 1>>, <<2024, 3, 1>>,
                          <<2024, 4, 2>>, <<2024, 10, 28>>, <<2024, 12, 31>>}}
\* The page "livraison" loads panier.js and a date calculation script: each
\* registers a DOMContentLoaded listener, and the listeners run in the order
\* of the script tags.  Ordres names the script whose listener runs first.
Ordres(p) == IF p = "livraison" THEN {"panier", "date-calcul"} ELSE {""}
\* the instants at which the page is loaded (hours since 1970-01-01T00:00Z)
Maintenant ==
    {DaysFromCivil(c) * HoursPerDay + h :
        c \in {<<2024, 2, 26>>, <<2024, 6, 10>>, <<2024, 12, 28>>}, h \in {12, 23}}
\* minDate of panier.js: today.setDate(today.getDate() + 7), then the day in UTC
DateMinimum(zone, now) == ToISODate(SetDate(zone, now, GetDate(zone, now) + DaysAhead))
\* the two fields once both DOMContentLoaded listeners have run, premier
\* naming the script whose listener ran first and servi the delivery date of
\* the served form: panier.js assigns the value without a change event
Chargement(premier, zone, servi, now) ==
    IF premier = "panier"
    THEN [livraison |-> DateMinimum(zone, now),
          depart |-> calculerDateDepart(zone, DateMinimum(zone, now))]
    ELSE [livraison |-> DateMinimum(zone, now),
          depart |-> calculerDateDepart(zone, servi)]
\* 'change' listener of #date-livraison, the user having set it to val
ChangeDate(val) ==
    /\ UserReady("dates") \/ UserReady("livraison")
    /\ dateLivraison' = val
    /\ dateDepartCamions' = calculerDateDepart(tz, val)
    /\ nEdits' = nEdits + 1
    /\ last' = Event("change", "date", "", << >>)
    /\ UNCHANGED <<page, tz, countdownVars, listVars, holeVars, pwVars, siteVars>>

\* --------------------------------------------------------------- countdown
\* (countdown.js)
\* text of a .countdown-time as the server wrote it
ServedText == << >>
\* the data-countdown values the server writes
ServedSeconds == 0..MaxSeconds \cup {LongCountdown}
\* the pages served: one or two [data-countdown] elements
ServedCountdowns ==
    {<<a>> : a \in ServedSeconds} \cup {<<a, b>> : a, b \in ServedSeconds}
\* mutant: the seconds are written without padding
CountdownText_NoPad(seconds) ==
    NatToStr(seconds \div SecondsPerMinute) \o <<":">> \o NatToStr(seconds % SecondsPerMinute)
\* minutes + ':' + (secs < 10 ? '0' : '') + secs
CountdownText(seconds) ==
    LET secs == seconds % SecondsPerMinute IN
    NatToStr(seconds \div SecondsPerMinute) \o <<":">>
    \o (IF secs < 10 THEN <<"0">> ELSE << >>) \o NatToStr(secs)
\* does the forEach callback take the reload branch for this attribute
Expired(attr) == Def(ParseInt(attr)) /\ ParseInt(attr)[1] <= 0
\* one run of updateCountdowns over the attributes and texts of the elements:
\* the new attributes, the new texts and the number of calls of reload()
\* span tells whether the elements have their .countdown-time child: without
\* it the first element that is not expired raises a TypeError, which ends
\* the run before its attribute is written
updateCountdowns(attrs, texts, span) ==
    LET live(i) == ~Expired(attrs[i])
        sec(i) == ParseInt(attrs[i])[1]
        orphans == {i \in DOMAIN attrs : live(i) /\ ~span}
        stop == IF orphans = {} THEN Len(attrs) + 1
                ELSE CHOOSE i \in orphans : \A j \in orphans : i <= j
        num(i) == live(i) /\ Def(ParseInt(attrs[i]))
    IN  [attrs |-> [i \in DOMAIN attrs |->
                      IF i >= stop \/ Expired(attrs[i]) THEN attrs[i]
                      ELSE IF num(i) THEN IntToStr(sec(i) - 1) ELSE <<"N", "a", "N">>],
         texts |-> [i \in DOMAIN attrs |->
                      IF i >= stop \/ Expired(attrs[i]) THEN texts[i]
                      ELSE IF num(i) THEN CountdownText(sec(i)) ELSE <<"NaN", ":", "NaN">>],
         calls |-> Cardinality({i \in DOMAIN attrs : i < stop /\ Expired(attrs[i])}),
         thrown |-> orphans # {}]
\* the interval callback
CountdownFire(t) ==
    /\ page = "countdown" /\ ~reloaded
    /\ t \in timers /\ t.chan = "interval" /\ t.remaining <= 0
    /\ LET u == updateCountdowns(cdAttr, cdText, absent # "countdown-time") IN
       /\ cdAttr' = u.attrs
       /\ cdText' = u.texts
       /\ reloadCalls' = reloadCalls + u.calls
       /\ reloaded' = (reloaded \/ u.calls > 0)
       /\ errors' = errors + (IF u.thrown THEN 1 ELSE 0)
    /\ timers' = (timers \ {t}) \cup {[t EXCEPT !.remaining = OneSecond]}
    /\ cdTicks' = cdTicks + 1
    /\ last' = Event("timer", "interval", "", << >>)
    /\ UNCHANGED <<page, dateVars, listVars, pwVars, absent, cdStart, nextId, inflight, nFetch, badge, panierLink,
                   orderVars, catVars, cartVars, searchVars, alerts, dbc, quiet, nEdits>>

\* ------------------------------------------------------------ list limits
\* (liste_limite.js)  The containers are numbered in document order.  A
\* .voir-plus-wrapper is [owner, restants]: the container whose items its
\* click listener holds, and the count written in its label.
Widths == {700, 767, 768, 1199, 1200, 1300}
ItemCounts == {20, 21, 60, 61}
\* the pages served: one container, or two with or without a common parent
ServedLists == {<<a>> : a \in ItemCounts} \cup {<<a, b>> : a, b \in ItemCounts}
\* getLimite() at width w: << >> is Infinity
getLimite(w) ==
    IF w < SmallBreak THEN <<SmallLimit>>
    ELSE IF w < LargeBreak THEN <<MediumLimit>> ELSE << >>
\* i < limite, for the 0-based index i
BelowLimit(i, limite) == limite = << >> \/ i < limite[1]
\* insertParent.parentElement of container c
ParentOf(c, same) == IF same THEN 1 ELSE c
\* the forEach callback of appliquerLimite for container c
LimiterConteneur(c, limite, st, n, same) ==
    LET caches == {k \in 1..n[c] : ~BelowLimit(k - 1, limite)}
        nbCaches == Cardinality(caches)
        p == ParentOf(c, same)
        btn == st.voirPlus[p]
    IN  [hidden |-> [st.hidden EXCEPT ![c] = caches],
         voirPlus |->
            IF nbCaches > 0
            THEN IF btn = << >>
                 THEN [st.voirPlus EXCEPT
                         ![p] = <<[owner |-> c, restants |-> IntToStr(nbCaches)]>>]
                 ELSE [st.voirPlus EXCEPT
                         ![p] = <<[btn[1] EXCEPT !.restants = IntToStr(nbCaches)]>>]
            ELSE [st.voirPlus EXCEPT ![p] = << >>]]
\* appliquerLimite(): the callback for each container in turn
RECURSIVE LimiterDepuis(_, _, _, _, _)
LimiterDepuis(c, limite, st, n, same) ==
    IF c > Len(n) THEN st
    ELSE LimiterDepuis(c + 1, limite, LimiterConteneur(c, limite, st, n, same), n, same)
appliquerLimite(w, st, n, same) == LimiterDepuis(1, getLimite(w), st, n, same)
\* 'resize' listener of the window
Resize(w) ==
    /\ UserReady("listes") \/ UserReady("produits")
    /\ innerWidth' = w
    /\ LET st == appliquerLimite(w, [hidden |-> hidden, voirPlus |-> voirPlus],
                                 items, sameParent) IN
       /\ hidden' = st.hidden
       /\ voirPlus' = st.voirPlus
    /\ nEdits' = nEdits + 1
    /\ last' = Event("resize", "", "", << >>)
    /\ UNCHANGED <<page, items, sameParent, recherche, dateVars, countdownVars, holeVars, pwVars, siteVars>>
\* 'click' listener of the .btn-voir-plus in parent element p
VoirPlusClick(p) ==
    /\ UserReady("listes") \/ UserReady("produits")
    /\ p \in DOMAIN voirPlus /\ voirPlus[p] # << >>
    /\ hidden' = [hidden EXCEPT ![voirPlus[p][1].owner] = {}]
    /\ voirPlus' = [voirPlus EXCEPT ![p] = << >>]
    /\ nEdits' = nEdits + 1
    /\ last' = Event("click", "voirPlus", "", <<p>>)
    /\ UNCHANGED <<page, innerWidth, items, sameParent, recherche, dateVars, countdownVars,
                   holeVars, pwVars, siteVars>>

\* ------------------------------------------------------------ product rows
\* (commander.js, filtrerProduits)  On the page "produits" the rows
\* .produit-ligne are the children of one [data-liste-limitee] container:
\* the filter and the limiter write the same inline style, display, of the
\* same rows, so that hidden[1] is the set of rows with display none.
\* the pages served: 21 or 61 rows
ServedProduits == {<<21>>, <<61>>}
\* text of the .produit-nom of row k
Nom(k) == IF k % 2 = 1 THEN <<"A", "b">> ELSE <<"b">>
\* the values typed in #recherche-produit
RechercheTexts == {<< >>, <<"A">>, <<"a", "b">>, <<"c">>}
\* toLowerCase() over the letters in use
ToLowerCase(t) == [i \in DOMAIN t |-> IF t[i] = "A" THEN "a" ELSE t[i]]
\* nom.includes(query)
Includes(nom, query) ==
    \E i \in 1..(Len(nom) + 1) :
        i + Len(query) - 1 <= Len(nom) /\ SubSeq(nom, i, i + Len(query) - 1) = query
\* filtrerProduits() with the field holding value: the rows left with
\* display none (the display of every row is written)
filtrerProduits(value) ==
    {k \in 1..items[1] : ~Includes(ToLowerCase(Nom(k)), ToLowerCase(value))}
\* 'input' listener of #recherche-produit
RechercheInput(val) ==
    /\ UserReady("produits")
    /\ recherche' = val
    /\ hidden' = [hidden EXCEPT ![1] = filtrerProduits(val)]
    /\ nEdits' = nEdits + 1
    /\ last' = Event("input", "recherche", "", << >>)
    /\ UNCHANGED <<page, innerWidth, items, sameParent, voirPlus, dateVars, countdownVars,
                   holeVars, pwVars, siteVars>>
\* 'click' listener of #effacer-recherche
EffacerClick ==
    /\ UserReady("produits")
    /\ recherche' = << >>
    /\ hidden' = [hidden EXCEPT ![1] = filtrerProduits(<< >>)]
    /\ nEdits' = nEdits + 1
    /\ last' = Event("click", "effacer", "", << >>)
    /\ UNCHANGED <<page, innerWidth, items, sameParent, voirPlus, dateVars, countdownVars,
                   holeVars, pwVars, siteVars>>

\* --------------------------------------------------------------- passwords
\* (toggle-password.js)  A button is bound by initTogglePassword ("auto":
\* class toggle-password and data-target) or by an onclick attribute that
\* calls togglePassword ("manual"); each button has its own field.
ServedIcon == {"bi", "bi-eye"}
ServedModes ==
    {<<a>> : a \in {"auto", "manual"}} \cup {<<a, b>> : a, b \in {"auto", "manual"}}
\* mutant: the icon is left as it is
Bascule_KeepsIcon(type, icon) ==
    IF type = "password" THEN [type |-> "text", icon |-> icon]
    ELSE [type |-> "password", icon |-> icon]
\* the body shared by the click listener and togglePassword
Bascule(type, icon) ==
    IF type = "password"
    THEN [type |-> "text", icon |-> (icon \ {"bi-eye"}) \cup {"bi-eye-slash"}]
    ELSE [type |-> "password", icon |-> (icon \ {"bi-eye-slash"}) \cup {"bi-eye"}]
RECURSIVE SeqSum(_)
SeqSum(q) == IF q = << >> THEN 0 ELSE Head(q) + SeqSum(Tail(q))
\* click on the button of field i
TogglePassword(i) ==
    /\ page = "motdepasse" /\ i \in DOMAIN pwType
    /\ SeqSum(pwClicks) < MaxToggles
    /\ LET b == Bascule(pwType[i], pwIcon[i]) IN
       /\ pwType' = [pwType EXCEPT ![i] = b.type]
       /\ pwIcon' = [pwIcon EXCEPT ![i] = b.icon]
    /\ pwClicks' = [pwClicks EXCEPT ![i] = @ + 1]
    /\ last' = Event("click", pwMode[i], "", <<i>>)
    /\ UNCHANGED <<page, pwMode, dateVars, countdownVars, listVars, holeVars, siteVars, nEdits>>

\* ------------------------------------------------------------------- time
RECURSIVE MinRemaining(_, _)
MinRemaining(ts, m) ==
    IF ts = {} THEN m
    ELSE LET t == CHOOSE x \in ts : TRUE IN MinRemaining(ts \ {t}, Min(m, t.remaining))
\* the clock advances by TimeStep, or up to the next timer's due time
Tick ==
    /\ NoTimerDue /\ ~reloaded
    /\ LET d == MinRemaining(timers, TimeStep) IN
       /\ timers' = {[t EXCEPT !.remaining = @ - d] : t \in timers}
       /\ quiet' = [k \in Keys |-> Min(quiet[k] + d, QuietCap)]
    /\ last' = Event("tick", "", "", << >>)
    /\ UNCHANGED <<page, widgetVars, nextId, inflight, nFetch, badge, panierLink, orderVars,
                   catVars, cartVars, searchVars, alerts, reloaded, dbc, nEdits>>

\* ---------------------------------------------------------- specification
\* the state once the DOMContentLoaded listeners have run, for a page among
\* pages served whole (holes = {"none"}) or without one of the elements holes
InitServed(pages, holes) ==
    /\ page \in pages
    /\ absent \in holes \cap ({"none"} \cup AbsentOn(page))
    /\ cdStart \in (IF page = "countdown" THEN ServedCountdowns ELSE {<< >>})
    /\ LET served == [i \in DOMAIN cdStart |-> IntToStr(cdStart[i])]
           u == updateCountdowns(served, [i \in DOMAIN cdStart |-> ServedText],
                                 absent # "countdown-time")
       IN  /\ cdAttr = u.attrs
           /\ cdText = u.texts
           /\ reloadCalls = u.calls
           /\ errors = IF u.thrown \/ (page = "commande" /\ absent # "none") THEN 1 ELSE 0
           /\ timers = IF page = "countdown" /\ ~u.thrown
                       THEN {Timer(1, "interval", "", OneSecond, << >>)} ELSE {}
    /\ nextId = IF timers = {} THEN 1 ELSE 2
    /\ inflight = {}
    /\ nFetch = 0
    /\ panierLink \in (IF page = "inscription" THEN {FALSE} ELSE BOOLEAN)
    /\ badge = IF panierLink THEN <<IntToStr(Cardinality(Refs))>> ELSE << >>
    /\ ocInput = [r \in Refs |-> <<"1">>]
    /\ sousTotal = [r \in Refs |-> ToFixed2(Prix[r] * OrZero(ParseInt(ocInput[r])))]
    /\ totalCommande = ToFixed2(TotalPrix(ocInput))
    /\ totalQuantite = IntToStr(TotalQte(ocInput))
    /\ syncTimers = [r \in Refs |-> 0]
    /\ addBtn = [disabled |-> FALSE, loading |-> FALSE, html |-> OriginalHtml]
    /\ recap = [vide |-> FALSE, items |-> <<"A", "B">>,
                total |-> ToFixed2(TotalPrix(ocInput)), gen |-> 0, token |-> FormToken]
    /\ alerts = {}
    /\ rows = Refs
    /\ qInput = [r \in Refs |-> <<"1">>]
    /\ ligneTotal = [r \in Refs |-> ToFixed2(Prix[r])]
    /\ panierTotal = ToFixed2(TotalPrix(qInput))
    /\ nbArticles = IntToStr(Cardinality(Refs))
    /\ timeoutId = [r \in Refs |-> 0]
    /\ cdTicks = 0
    /\ pwMode \in (IF page = "motdepasse" THEN ServedModes ELSE {<< >>})
    /\ pwType = [i \in DOMAIN pwMode |-> "password"]
    /\ pwIcon = [i \in DOMAIN pwMode |-> ServedIcon]
    /\ pwClicks = [i \in DOMAIN pwMode |-> 0]
    /\ reloaded = (reloadCalls > 0)
    /\ innerWidth \in (IF page \in {"listes", "produits"} THEN Widths ELSE {LargeBreak})
    /\ items \in (IF page = "listes" THEN ServedLists
                  ELSE IF page = "produits" THEN ServedProduits ELSE {<< >>})
    /\ recherche = << >>
    /\ sameParent \in (IF Len(items) = 2 THEN BOOLEAN ELSE {FALSE})
    /\ LET st == appliquerLimite(innerWidth,
                                 [hidden |-> [c \in DOMAIN items |-> {}],
                                  voirPlus |-> [c \in DOMAIN items |-> << >>]],
                                 items, sameParent)
       IN  /\ hidden = st.hidden
           /\ voirPlus = st.voirPlus
    /\ searchValue \in (IF page = "inscription" THEN {<< >>, Client1.nom} ELSE {<< >>})
    /\ hiddenValue = IF searchValue = << >> THEN << >> ELSE IntToStr(Client1.tiers)
    /\ selectedDiv = IF hiddenValue # << >> /\ searchValue # << >>
                     THEN <<searchValue, hiddenValue>> ELSE << >>
    /\ results = NoResults
    /\ debounceTimer = 0
    /\ tz \in (IF page \in {"dates", "livraison"} THEN Zones ELSE {"UTC"})
    /\ last \in {Event("load", o, "", << >>) : o \in Ordres(page)}
    /\ IF page = "livraison"
       THEN \E servi \in DatesSaisies \cup {<< >>}, now \in Maintenant :
               LET l == Chargement(last.op, tz, servi, now) IN
               dateLivraison = l.livraison /\ dateDepartCamions = l.depart
       ELSE /\ dateLivraison \in (IF page = "dates" THEN DatesInitiales \cup {<< >>}
                                  ELSE {<< >>})
            /\ dateDepartCamions = calculerDateDepart(tz, dateLivraison)
    /\ dbc = [k \in Keys |-> NoEdits]
    /\ quiet = [k \in Keys |-> QuietCap]
    /\ nEdits = 0

InitPage(pages) == InitServed(pages, {"none"})

NextCommande ==
    \/ \E ref \in Refs, val \in TypedTexts : TypeQuantite(ref, val)
    \/ \E ref \in Refs : BtnPlus(ref)
    \/ \E ref \in Refs : BtnMoins(ref)
    \/ \E t \in timers : SyncTimerFire(t)
    \/ \E r \in inflight, o \in Outcomes, d \in SyncData \cup {NoData} : SyncResponse(r, o, d)
    \/ ViderClick
    \/ \E r \in inflight, o \in Outcomes, d \in ViderData \cup {NoData} : ViderResponse(r, o, d)

NextCatalogue ==
    \/ AddSubmit
    \/ \E r \in inflight, o \in Outcomes, d \in AddData \cup {NoData} : AddResponse(r, o, d)
    \/ \E ref \in Refs : RecapSubmit(ref)
    \/ \E r \in inflight, o \in Outcomes, d \in RecapData \cup {NoData} : RecapResponse(r, o, d)

NextPanier ==
    \/ \E ref \in Refs, val \in CartTexts : ChangeQuantite(ref, val)
    \/ \E t \in timers : ChangeTimerFire(t)
    \/ \E r \in inflight, o \in Outcomes, d \in ModifierData \cup {NoData} :
          ModifierResponse(r, o, d)
    \/ \E ref \in Refs, accept \in BOOLEAN : SupprimerSubmit(ref, accept)
    \/ \E r \in inflight, o \in Outcomes, d \in SupprimerData \cup {NoData} :
          SupprimerResponse(r, o, d)

NextInscription ==
    \/ \E val \in SearchTexts : SearchInput(val)
    \/ \E t \in timers : SearchTimerFire(t)
    \/ \E r \in inflight, o \in Outcomes, d \in SearchData \cup {NoData} :
          SearchResponse(r, o, d)
    \/ \E i \in 1..2 : ResultClick(i)
    \/ \E target \in {"input", "results", "outside"} : DocumentClick(target)

NextAlert == \E t \in timers : AlertTimerFire(t)

NextAbsent ==
    \/ \E ref \in Refs, val \in TypedTexts : TypeSansListener(ref, val)
    \/ \E ref \in Refs, val \in TypedTexts : TypeQuantite(ref, val)
    \/ \E t \in timers : SyncTimerFire(t)
    \/ \E r \in inflight, o \in Outcomes, d \in SyncData \cup {NoData} : SyncResponse(r, o, d)

NextMotDePasse == \E i \in 1..2 : TogglePassword(i)

NextCountdown == \E t \in timers : CountdownFire(t)

NextListes ==
    \/ \E w \in Widths : Resize(w)
    \/ \E p \in 1..2 : VoirPlusClick(p)

NextProduits ==
    \/ \E val \in RechercheTexts : RechercheInput(val)
    \/ EffacerClick
    \/ \E w \in Widths : Resize(w)
    \/ VoirPlusClick(1)

NextDates == \E val \in DatesSaisies \cup {<< >>} : ChangeDate(val)

NextLivraison == \E val \in DatesSaisies \cup {<< >>} : ChangeDate(val)

Pages == {"commande", "catalogue", "panier", "inscription", "dates", "countdown", "listes",
          "motdepasse", "produits", "livraison"}
Init == InitServed(Pages, {"none"} \cup UNION {AbsentOn(p) : p \in Pages})
Next ==
    \/ NextCommande \/ NextCatalogue \/ NextPanier \/ NextInscription \/ NextAlert
    \/ NextDates \/ NextCountdown \/ NextListes \/ NextAbsent
    \/ NextMotDePasse \/ NextProduits \/ NextLivraison
    \/ Tick
Spec == Init /\ [][Next]_vars

InitCommande == InitPage({"commande"})
SpecCommande == InitCommande /\ [][NextCommande \/ Tick]_vars

InitInscription == InitPage({"inscription"})
SpecInscription == InitInscription /\ [][NextInscription \/ Tick]_vars

InitAbsent ==
    InitServed({"commande", "countdown"}, AbsentOn("commande") \cup AbsentOn("countdown"))
SpecAbsent == InitAbsent /\ [][NextAbsent \/ Tick]_vars

InitLivraison == InitPage({"livraison"})
SpecLivraison == InitLivraison /\ [][NextLivraison]_vars

InitProduits == InitPage({"produits"})
SpecProduits == InitProduits /\ [][NextProduits]_vars

InitMotDePasse == InitPage({"motdepasse"})
SpecMotDePasse == InitMotDePasse /\ [][NextMotDePasse]_vars

InitCountdown == InitPage({"countdown"})
SpecCountdown == InitCountdown /\ [][NextCountdown \/ Tick]_vars

InitListes == InitPage({"listes"})
SpecListes == InitListes /\ [][NextListes]_vars

InitDates == InitPage({"dates"})
SpecDates == InitDates /\ [][NextDates]_vars

InitBoutique == InitPage({"catalogue", "panier"})
SpecBoutique == InitBoutique /\ [][NextCatalogue \/ NextPanier \/ NextAlert \/ Tick]_vars

\* ------------------------------------------------------------------ claims
DebounceChans == {"sync", "change", "search"}
CartOps == {"add", "modifier", "supprimer", "supprimerRecap", "sync", "vider"}
Failures == {"neterr", "badjson", "refused"}
\* the displayed cart state
cartDisplay == <<badge, ligneTotal, panierTotal, nbArticles, recap, rows, qInput,
                 ocInput, sousTotal, totalCommande, totalQuantite>>

\* C1: on the order page every burst of quantity edits on a reference (each
\* edit less than 400 ms after the previous one) gets exactly one POST, sent
\* only after 400 ms without an edit and carrying the last edit's quantity.
C1_OnePostPerBurst ==
    page = "commande" =>
        \A k \in Refs :
            /\ dbc[k].closed /\ dbc[k].afterQuiet /\ dbc[k].own
            /\ dbc[k].burstPosts <= 1
            /\ (dbc[k].val # << >> /\ quiet[k] > SyncDelay => dbc[k].burstPosts = 1)
\* a burst of two edits on one reference has been answered by its one POST
C1_Witness ==
    \E k \in Refs :
        /\ page = "commande" /\ dbc[k].edits = 2 /\ ~dbc[k].spaced
        /\ dbc[k].burstPosts = 1 /\ dbc[k].posts = 1

\* C2 (as claimed): on every debounced channel, edits on one key that are each
\* separated by more than the window produce one request per edit, in the
\* order of the edits, each carrying the value of its own edit.
C2_OneRequestPerSpacedEdit ==
    \A k \in Keys :
        dbc[k].spaced =>
            /\ dbc[k].own
            /\ dbc[k].posts <= dbc[k].edits /\ dbc[k].edits <= dbc[k].posts + 1
            /\ (quiet[k] > Window => dbc[k].posts = dbc[k].edits)
\* C2 (amended): such edits produce one request per edit that calls for one,
\* in the order of the edits: every edit on the order page (its quantity) and
\* on the cart page (its value capped at data-stock), and on the client search
\* only an edit whose trimmed text has at least 2 characters.  The request of
\* the last edit has been sent once the window has elapsed on a page that has
\* not been reloaded.
C2_OneRequestPerWantedEdit ==
    \A k \in Keys :
        dbc[k].spaced =>
            /\ dbc[k].ownWant
            /\ dbc[k].posts <= dbc[k].wanted /\ dbc[k].wanted <= dbc[k].posts + 1
            /\ (dbc[k].posts < dbc[k].wanted => dbc[k].want # << >>)
            /\ (quiet[k] > Window /\ ~reloaded => dbc[k].posts = dbc[k].wanted)
\* two edits spaced by more than the window have each been followed by a request
C2_Witness ==
    \E k \in Keys :
        /\ dbc[k].spaced /\ dbc[k].edits = 2 /\ dbc[k].wanted = 2 /\ dbc[k].posts = 2

\* the variable that holds the id of the timer of t's key
Holder(t) ==
    IF t.chan = "sync" THEN syncTimers[t.key]
    ELSE IF t.chan = "change" THEN timeoutId[t.key] ELSE debounceTimer
\* C3: at most one debounce timer is pending per key, and it is the one armed
\* by the last edit of that key: the timers of earlier edits were cancelled.
C3_OneTimerPerKey ==
    /\ \A t \in timers : t.chan \in DebounceChans => t.id = Holder(t)
    /\ \A t, u \in timers :
          t.chan \in DebounceChans /\ t.chan = u.chan /\ t.key = u.key => t = u
\* a second edit on a key has replaced the timer armed by the first
C3_Witness ==
    \E t \in timers :
        /\ t.chan \in DebounceChans
        /\ dbc[t.key].wanted = 2 /\ dbc[t.key].posts = 0

\* the response handled last was a success that carried an item count
CountApplied == last.act = "response" /\ last.res = "ok" /\ Def(last.count)
C5_RemovalConfirmed ==
    \A r \in inflight : r.op \in {"supprimer", "supprimerRecap"} => r.confirmed

\* C6: a cart response that is a transport failure, an undecodable body or has
\* no true success flag changes nothing of the displayed cart state.
C6_FailureChangesNothing ==
    [][(last'.act = "response" /\ last'.op \in CartOps /\ last'.res \in Failures)
         => UNCHANGED cartDisplay]_vars
\* a quantity change has been refused by the server
C6_Witness == last.act = "response" /\ last.op = "modifier" /\ last.res = "refused"

\* C7: a cart response is applied whole or not at all: in particular a
\* quantity-change response with success true that carries a line total and an
\* item count but no total_panier leaves the line total, the badge, the cart
\* total, the article count and the rows as they were.
C7_AllOrNothing ==
    [][\A r \in inflight, d \in ModifierData :
          (ModifierResponse(r, "data", d) /\ Truthy(d.success)
           /\ Def(d.total_ligne) /\ Def(d.panier_count) /\ ~Def(d.total_panier))
          => UNCHANGED <<ligneTotal, badge, panierTotal, nbArticles, rows>>]_vars

\* C8: every failed add, quantity change, line removal or cart clear shows a
\* notification.
C8_FailureNotified ==
    [][(last'.act = "response" /\ last'.res \in Failures
        /\ last'.op \in {"add", "modifier", "supprimer", "vider"})
         => \E a \in alerts' : a \notin alerts]_vars

\* C9: the add-to-cart button is disabled and marked loading exactly while its
\* request is in flight, and shows its original content.
C9_ButtonFollowsRequest ==
    page = "catalogue" =>
        LET pending == \E r \in inflight : r.op = "add" IN
        addBtn = [disabled |-> pending, loading |-> pending, html |-> OriginalHtml]
\* an add request has settled with an undecodable body
C9_Witness ==
    /\ page = "catalogue" /\ last.act = "response" /\ last.op = "add"
    /\ last.res = "badjson" /\ ~addBtn.disabled

\* C10: at most one notification is visible.
C10_OneNotification == Cardinality(alerts) <= 1
\* a notification is visible while the timer of the one it replaced is pending
C10_Witness ==
    /\ alerts # {}
    /\ \E t \in timers : t.chan = "alert" /\ \A a \in alerts : a.id # t.id

\* C11: on the cart page the success response of a quantity-change request
\* that is older than one already applied for the same line changes nothing
\* of the display: the line total, cart total, article count and badge stay
\* those of the newer response.
C11_StaleResponseIgnored ==
    [][\A r \in inflight, d \in ModifierData :
          (ModifierResponse(r, "data", d) /\ Truthy(d.success)
           /\ Def(d.total_ligne) /\ Def(d.total_panier) /\ Def(d.panier_count)
           /\ r.id < dbc[r.key].answered)
          => UNCHANGED <<ligneTotal, panierTotal, nbArticles, badge>>]_vars

\* a success response with the fields of a quantity-change response
WellFormed(d) ==
    Truthy(d.success) /\ Def(d.total_ligne) /\ Def(d.total_panier) /\ Def(d.panier_count)
PostOps == {"add", "modifier", "supprimer", "supprimerRecap", "sync", "vider"}
TierText(c) == IF c = Client1 THEN <<"7">> ELSE <<"1", "2">>
\* C14: a click on a result sets the hidden field to the result's tier code
\* and the search field to its name, shows the badge of that pair and leaves
\* the results list empty.
C14_SelectionCommitted ==
    [][\A i \in 1..2 :
          (results.kind = "list" /\ i <= Len(results.items) /\ ResultClick(i))
          => LET c == results.items[i] IN
             /\ hiddenValue' = TierText(c)
             /\ searchValue' = c.nom
             /\ selectedDiv' = <<c.nom, TierText(c)>>
             /\ results' = NoResults]_vars
\* the second result of a list has been selected
C14_Witness ==
    /\ last.act = "click" /\ last.op = "result"
    /\ hiddenValue = <<"1", "2">> /\ searchValue = Client2.nom

\* C15: a click outside the search input and the results region empties the
\* results and leaves the hidden field, the search field and the badge as
\* they were; a click inside either of them leaves the results as they were.
C15_OutsideClickClears ==
    [][(last'.act = "click" /\ last'.op \in {"outside", "input", "results"})
         => /\ UNCHANGED <<hiddenValue, searchValue, selectedDiv>>
            /\ results' = IF last'.op = "outside" THEN NoResults ELSE results]_vars
\* with a client selected, a search was answered and a click outside then
\* cleared what it showed
C15_Witness ==
    /\ last.act = "click" /\ last.op = "outside"
    /\ nFetch = 1 /\ inflight = {} /\ results = NoResults /\ selectedDiv # << >>

\* days of each month of the year y
DaysInMonth(y, m) ==
    IF m = 2 THEN (IF y % 4 = 0 /\ (y % 100 # 0 \/ y % 400 = 0) THEN 29 ELSE 28)
    ELSE IF m \in {4, 6, 9, 11} THEN 30 ELSE 31
\* the calendar day after <<y, m, d>>
Lendemain(c) ==
    IF c[3] < DaysInMonth(c[1], c[2]) THEN <<c[1], c[2], c[3] + 1>>
    ELSE IF c[2] < 12 THEN <<c[1], c[2] + 1, 1>> ELSE <<c[1] + 1, 1, 1>>
\* C16: the departure field is empty exactly when the delivery field is, and
\* otherwise holds the date two calendar days before the delivery date.
C16_TwoDaysEarlier ==
    page = "dates" =>
        IF dateLivraison = << >> THEN dateDepartCamions = << >>
        ELSE /\ dateDepartCamions # << >>
             /\ Lendemain(Lendemain(ParseDate(dateDepartCamions))) = ParseDate(dateLivraison)

\* the least served value of the page's countdown elements
RECURSIVE SeqMin(_)
SeqMin(q) == IF Len(q) = 1 THEN q[1] ELSE Min(q[1], SeqMin(Tail(q)))
\* C17: with every countdown served with a value above 0, location.reload()
\* is not called before the tick whose number is the least served value, and
\* from that tick on it has been called exactly once.
C17_ReloadOnceAtExpiry ==
    (page = "countdown" /\ \A i \in DOMAIN cdStart : cdStart[i] > 0) =>
        reloadCalls = IF cdTicks >= SeqMin(cdStart) THEN 1 ELSE 0

\* the cap the claims state for a width: << >> is "no cap"
Cap(w) == IF w < 768 THEN <<20>> ELSE IF w < 1200 THEN <<60>> ELSE << >>
\* the number of items of container c beyond the cap of width w
Beyond(c, w) == IF Cap(w) = << >> \/ items[c] <= Cap(w)[1] THEN 0 ELSE items[c] - Cap(w)[1]
\* the show-more controls that reveal container c
ControlsOf(c) ==
    {p \in DOMAIN voirPlus : voirPlus[p] # << >> /\ voirPlus[p][1].owner = c}
\* container c is limited for the current width: the items beyond the cap, and
\* only they, are hidden, and there is a control for it, labelled with their
\* number, exactly when there are any
Limited(c) ==
    /\ hidden[c] = {k \in 1..items[c] : k > items[c] - Beyond(c, innerWidth)}
    /\ (ControlsOf(c) # {}) <=> (Beyond(c, innerWidth) > 0)
    /\ \A p \in ControlsOf(c) : voirPlus[p][1].restants = IntToStr(Beyond(c, innerWidth))
\* C18: after appliquerLimite (at load and at a resize) every list shows
\* min(N, cap(w)) items and has a show-more control, labelled N - cap(w), if
\* and only if N > cap(w).
C18_CapApplied ==
    (page = "listes" /\ last.act \in {"load", "resize"}) =>
        \A c \in DOMAIN items : Limited(c)

\* C19: a click on a show-more control shows every item of its list and
\* removes the control; every resize limits every list anew for the new width.
C19_ShowMoreThenResize ==
    [][/\ \A p \in 1..2 :
            (p \in DOMAIN voirPlus /\ voirPlus[p] # << >> /\ VoirPlusClick(p))
            => /\ hidden'[voirPlus[p][1].owner] = {}
               /\ voirPlus'[p] = << >>
       /\ \A w \in Widths :
            Resize(w) => (innerWidth' = w /\ \A c \in DOMAIN items : Limited(c)')]_vars

\* a success response with a line list, a cart total and an item count
Complete(d) ==
    Truthy(d.success) /\ Def(d.lignes_panier) /\ Def(d.total_panier) /\ Def(d.panier_count)
\* the panel rc shows the lines and the total of response d, or the
\* placeholder when d has no line
ShowsList(rc, d) ==
    IF d.lignes_panier[1] = << >> THEN rc.vide /\ rc.items = << >>
    ELSE ~rc.vide /\ rc.items = d.lignes_panier[1] /\ rc.total = ToFixed2(d.total_panier[1])
\* C20: once a successful add or recap-removal response that holds a line
\* list has been handled, the recap panel shows the lines of that list in
\* order with the response's total, or the placeholder when the list is empty.
C20_RecapFollowsResponse ==
    [][\A r \in inflight :
          /\ \A d \in {x \in AddData : Complete(x)} :
                (r.op = "add" /\ AddResponse(r, "data", d)) => ShowsList(recap', d)
          /\ \A d \in {x \in RecapData : Complete(x)} :
                (r.op = "supprimerRecap" /\ RecapResponse(r, "data", d))
                => ShowsList(recap', d)]_vars

\* C21: a page served without an element a widget expects raises no error,
\* neither when its scripts start nor in their handlers.
C21_AbsentElementNoError == absent # "none" => errors = 0

\* C22: each activation of a password button flips its field between
\* password and text; after an even number of activations the field is masked
\* with the icon it was served with, after an odd number it is plain, and the
\* icon is bi-eye exactly when the field is masked and bi-eye-slash exactly
\* when it is plain.
C22_ToggleIsBinary ==
    \A i \in DOMAIN pwType :
        /\ pwType[i] = (IF pwClicks[i] % 2 = 0 THEN "password" ELSE "text")
        /\ pwClicks[i] % 2 = 0 => pwIcon[i] = ServedIcon
        /\ ("bi-eye" \in pwIcon[i]) <=> (pwType[i] = "password")
        /\ ("bi-eye-slash" \in pwIcon[i]) <=> (pwType[i] = "text")
\* a field shown in plain text, and another toggled twice
C22_Witness ==
    /\ page = "motdepasse" /\ Len(pwType) = 2
    /\ pwClicks = <<1, 2>> /\ pwType = <<"text", "password">>

\* the auto-close timer of notification a
TimerOf(a, ts) == {t \in ts : t.chan = "alert" /\ t.id = a.id}
\* C23: a notification on display has its own auto-close timer, armed 3 s
\* after it was shown; it leaves the display only when that timer runs or when
\* a later notification replaces it, and the timer of a replaced notification
\* removes nothing.
C23_NotificationLifetime ==
    [][/\ \A a \in alerts' :
            \E t \in TimerOf(a, timers') : t.remaining >= 0 /\ t.remaining <= AlertDelay
       /\ \A a \in alerts \ alerts' :
            \/ \E b \in alerts' : b.id > a.id /\ TimerOf(b, timers')
                                                 = {Timer(b.id, "alert", "", AlertDelay, << >>)}
            \/ \E t \in TimerOf(a, timers) : t.remaining <= 0 /\ t \notin timers'
       /\ \A t \in timers \ timers' :
            (t.chan = "alert" /\ t.remaining <= 0 /\ TimerOf([id |-> t.id], timers') = {})
            => alerts' = {a \in alerts : a.id # t.id}]_vars
\* the timer of a replaced notification has run and the notification that
\* replaced it is still shown
C23_Witness ==
    /\ last.act = "fire" /\ last.op = "alert" /\ alerts # {}
    /\ \A a \in alerts : \E t \in TimerOf(a, timers) : t.remaining > 0

\* the text has no space at either end
Trimmed(q) == q = << >> \/ (Head(q) # " " /\ q[Len(q)] # " ")
\* C24: every search request carries a trimmed query of at least 2
\* characters, the one of the last input, and is sent 300 ms or more after
\* that input; an input that leaves fewer than 2 trimmed characters leaves no
\* search pending, sends nothing and empties the results.
C24_SearchOnlyWhenDue ==
    [][/\ \A r \in inflight' \ inflight :
            /\ r.op = "search" /\ Len(r.arg[1]) >= MinQuery /\ Trimmed(r.arg[1])
            /\ quiet["search"] >= SearchDelay
            /\ dbc["search"].val = r.arg
       /\ (last'.act = "input" /\ last'.op = "search"
           /\ Cardinality({i \in 1..Len(searchValue') : searchValue'[i] # " "}) < MinQuery)
          => /\ {t \in timers' : t.chan = "search"} = {}
             /\ inflight' = inflight
             /\ results' = NoResults]_vars
\* a search was pending when an input left one character: it was cancelled
C24_Witness ==
    /\ page = "inscription" /\ last.act = "input" /\ searchValue = <<"a", " ">>
    /\ dbc["search"].edits = 2 /\ dbc["search"].wanted = 1 /\ dbc["search"].posts = 0
    /\ timers = {} /\ quiet["search"] = 0

\* a request issued after r has been answered
LaterAnswered(r) == \E k \in (r.id + 1)..nFetch : \A q \in inflight : q.id # k
\* the search field shows the name of the selected client
SelectionShown == Def(selectedDiv) /\ searchValue = selectedDiv[1]
\* C25: the response to a search does not change the displayed results when
\* the response to a later search has already arrived, when the search field
\* now holds fewer than 2 trimmed characters, or when a result was selected.
C25_ResultsFollowLatestQuery ==
    [][\A r \in inflight \ inflight' :
         (/\ r.op = "search"
          /\ \/ LaterAnswered(r)
             \/ Len(Trim(searchValue)) < MinQuery
             \/ SelectionShown)
         => results' = results]_vars

\* C26: whenever the hidden tier field holds a value, it is the tier code of
\* the client whose name is in the search field, also after the search text
\* is edited following a selection.
C26_HiddenMatchesVisible ==
    page = "inscription" =>
        (hiddenValue # << >> =>
            \E c \in {Client1, Client2} :
                searchValue = c.nom /\ hiddenValue = IntToStr(c.tiers))

\* the handler that ran last applied a successful cart clear
JustCleared == last.act = "response" /\ last.op = "vider" /\ last.res = "ok"
\* C27: once a cart clear has succeeded on the order page, a step that is no
\* edit sends no cart-modify request and leaves the badge absent, also when a
\* quantity edit was debounced or its request in flight at the clear.
C27_NothingAfterClear ==
    [][(JustCleared /\ nEdits' = nEdits)
       => /\ \A r \in inflight' \ inflight : r.op # "sync"
          /\ badge' = << >>]_vars

\* the text of an amount of zero
ZeroAmount == <<"0", ".", "0", "0", " ", "EUR">>
\* C28: a successful answer to the cart clear sets every quantity input to 0,
\* every subtotal and the order total to 0.00, the total quantity to 0 and
\* removes the badge; any other answer changes none of them.
C28_ClearResetsAll ==
    [][\A r \in inflight \ inflight' :
         r.op = "vider" =>
            IF last'.res = "ok"
            THEN /\ \A ref \in Refs : ocInput'[ref] = <<"0">> /\ sousTotal'[ref] = ZeroAmount
                 /\ totalCommande' = ZeroAmount
                 /\ totalQuantite' = <<"0">>
                 /\ badge' = << >>
            ELSE UNCHANGED <<ocInput, sousTotal, totalCommande, totalQuantite, badge>>]_vars
\* a cart with a badge and a typed quantity has just been cleared
C28_Witness ==
    /\ page = "commande" /\ JustCleared /\ panierLink /\ badge = << >>
    /\ dbc["A"].edits = 1
    /\ \A ref \in Refs : ocInput[ref] = <<"0">>
    /\ totalQuantite = <<"0">>

\* the quantity the page reads in the field of ref
Quantite(ref) == OrZero(ParseInt(ocInput[ref]))
\* the totals shown are the sums over the fields
TotalsAgree ==
    /\ totalCommande = ToFixed2(Prix["A"] * Quantite("A") + Prix["B"] * Quantite("B"))
    /\ totalQuantite = IntToStr(Quantite("A") + Quantite("B"))
\* C29: on the order page, after initialisation and after every quantity
\* input event (typed, plus or minus), the order total is the sum of price
\* times quantity, the total quantity the sum of the quantities and the
\* subtotal of the edited line its price times its quantity.
C29_TotalsFollowInputs ==
    /\ page = "commande" => TotalsAgree
    /\ [][(page = "commande" /\ last'.act \in {"input", "plus", "moins"})
          => /\ TotalsAgree'
             /\ \A ref \in Refs :
                  ocInput'[ref] # ocInput[ref]
                  => sousTotal'[ref] = ToFixed2(Prix[ref] * Quantite(ref)')]_vars
\* a click on plus has raised the quantity of A from 1 to 2
C29_Witness ==
    /\ page = "commande" /\ last.act = "plus"
    /\ ocInput = [r \in Refs |-> IF r = "A" THEN <<"2">> ELSE <<"1">>]
    /\ sousTotal["A"] = <<"3", ".", "0", "0", " ", "EUR">>
    /\ totalCommande = <<"5", ".", "7", "5", " ", "EUR">>
    /\ totalQuantite = <<"3">>

\* C30: on the order page the quantity read in every field is a
\* non-negative integer, and so is the quantite of every request to
\* /commandes/panier/modifier/, pending or sent.
C30_QuantiteNonNegative ==
    page = "commande" =>
        /\ \A ref \in Refs : Quantite(ref) \in Nat
        /\ \A t \in timers : t.chan = "sync" => t.arg[1] \in Nat
        /\ \A r \in inflight : r.op = "sync" => r.arg[1] \in Nat

\* the quantity entered in the field of ref exceeds the line's data-stock
OverStock(ref) ==
    /\ Stock[ref] # << >>
    /\ Def(ParseInt(qInput[ref])) /\ Def(ParseInt(Stock[ref]))
    /\ ParseInt(qInput[ref])[1] > ParseInt(Stock[ref])[1]
\* C31: on the cart page, when the debounce window of a line elapses with an
\* entered quantity above its data-stock, the field is set to the stock, a
\* warning naming the stock is shown and the request carries the stock; a
\* quantity at or below the stock, or a line without data-stock, is sent as
\* entered and without a warning.
C31_StockCap ==
    [][\A r \in inflight' \ inflight :
         r.op = "modifier" =>
            IF OverStock(r.key)
            THEN /\ qInput' = [qInput EXCEPT ![r.key] = Stock[r.key]]
                 /\ r.arg = <<Stock[r.key]>>
                 /\ \E a \in alerts' \ alerts :
                      /\ a.type = "warning"
                      /\ a.msg = <<"Quantite maximale disponible : ">> \o Stock[r.key]
            ELSE /\ qInput' = qInput
                 /\ r.arg = <<qInput[r.key]>>
                 /\ alerts' = alerts]_vars
\* the quantity 2 entered on the line with stock 1 has just been capped
C31_Witness ==
    /\ page = "panier" /\ last.act = "fire" /\ last.op = "modifier"
    /\ dbc["A"].val = << <<"2">> >> /\ qInput["A"] = <<"1">>
    /\ \E a \in alerts : a.type = "warning"
    /\ \E r \in inflight : r.op = "modifier" /\ r.key = "A" /\ r.arg = << <<"1">> >>

\* the message field of the add responses that are no success (undefined
\* for an object without fields)
RefusalMessages == {d.message : d \in {x \in AddData \cup {NoData} : ~Truthy(x.success)}}
\* C32: an add-to-cart response whose success is not true shows the server's
\* message as a warning notification and leaves the badge and the recap
\* panel as they were.
C32_RefusedAddChangesNothing ==
    [][\A r \in inflight \ inflight' :
         (r.op = "add" /\ last'.res = "refused")
         => /\ \E a \in alerts' \ alerts :
                 a.type = "warning" /\ a.msg \in RefusalMessages /\ alerts' \subseteq alerts \cup {a}
            /\ badge' = badge
            /\ recap' = recap]_vars
\* an add has just been refused on a page showing a badge and a filled panel
C32_Witness ==
    /\ page = "catalogue" /\ last.act = "response" /\ last.op = "add" /\ last.res = "refused"
    /\ badge # << >> /\ ~recap.vide
    /\ \E a \in alerts : a.type = "warning" /\ a.msg = <<"m">>

\* C33: a successful response with an item count above 0, handled where no
\* badge exists and the cart anchor does, creates a badge showing that count;
\* whatever responses the cart script and the order-page script handle, the
\* document never holds more than one badge element.
C33_OneBadge ==
    /\ Len(badge) <= 1
    /\ [][/\ Len(badge') <= 1
          /\ (/\ last'.act = "response" /\ last'.res = "ok" /\ last'.op \in CartOps
              /\ Positive(last'.count) /\ badge = << >> /\ panierLink)
             => badge' = <<IntToStr(last'.count[1])>>]_vars
\* on the order page a cart clear removed the badge (the untouched line B
\* shows 0) and a later count of 1 has created it again
C33_Witness ==
    /\ page = "commande" /\ last.act = "response" /\ last.op = "sync" /\ last.res = "ok"
    /\ ocInput["B"] = <<"0">> /\ dbc["B"].edits = 0
    /\ panierLink /\ badge = << <<"1">> >>

\* the remaining seconds held by the i-th countdown element
Remaining(i) == DigitsValue(cdAttr[i], 0)
\* C34: on every tick a countdown element with remaining value r > 0 shows
\* floor(r/60), a colon and r mod 60 on two digits, and its counter becomes
\* r - 1; an element at 0 keeps its counter and its text, whatever the other
\* elements hold, so that no counter goes below 0.
C34_TickRendersAndDecrements ==
    /\ page = "countdown" => \A i \in DOMAIN cdAttr : Head(cdAttr[i]) # "-"
    /\ [][(page = "countdown" /\ cdTicks' = cdTicks + 1) =>
            \A i \in DOMAIN cdAttr :
               /\ Head(cdAttr'[i]) # "-"
               /\ IF Remaining(i) > 0
                  THEN /\ cdText'[i] = NatToStr(Remaining(i) \div 60) \o <<":">>
                                       \o PadStart(NatToStr(Remaining(i) % 60), 2)
                       /\ Remaining(i)' = Remaining(i) - 1
                  ELSE cdAttr'[i] = cdAttr[i] /\ cdText'[i] = cdText[i]]_vars
\* a tick has rendered 69 seconds as 1:09 while the other element was at 0
C34_Witness ==
    /\ page = "countdown" /\ Len(cdAttr) = 2 /\ cdTicks > 0
    /\ cdText[1] = <<"1", ":", "0", "9">> /\ cdAttr[1] = <<"6", "8">>
    /\ cdAttr[2] = <<"0">>

\* C35: a successful quantity-change response on the cart page removes the
\* line's row if and only if the quantity sent in its request was 0 or less,
\* whatever was typed in the field after the request was sent.
C35_RemovalFollowsSentQuantity ==
    [][\A r \in inflight, d \in ModifierData :
          (/\ ModifierResponse(r, "data", d)
           /\ Truthy(d.success) /\ Def(d.total_panier) /\ r.key \in rows)
          => (r.key \notin rows' <=> OrZero(ParseInt(r.arg[1])) <= 0)]_vars

\* C36: on the page whose product rows are filtered by the search and capped
\* by the limiter, a row is visible only if its name contains the query
\* (whatever the case) and it is within the cap or no show-more control is
\* left to click.
C36_VisibleOnlyIfBoth ==
    page = "produits" =>
        \A k \in 1..items[1] :
            k \notin hidden[1]
            => /\ Includes(ToLowerCase(Nom(k)), ToLowerCase(recherche))
               /\ (BelowLimit(k - 1, getLimite(innerWidth)) \/ voirPlus[1] = << >>)

\* C37: when the truncated lists share their parent element, after
\* appliquerLimite every list that has hidden items has a show-more control
\* of its own (its click reveals that list) labelled with the number of that
\* list's hidden items; so a list without hidden items has removed no
\* control of another list.
C37_OwnControlPerList ==
    (page = "listes" /\ sameParent /\ last.act \in {"load", "resize"}) =>
        \A c \in DOMAIN items :
            hidden[c] # {}
            => \E p \in ControlsOf(c) :
                  voirPlus[p][1].restants = IntToStr(Cardinality(hidden[c]))

\* C38: on the page that loads the cart script and a date calculation
\* script, once the DOMContentLoaded listeners have run, in either order, and
\* after any change event, the departure field is empty exactly when the
\* delivery field is, and otherwise holds the delivery date minus 2 days.
C38_DepartFollowsLivraison ==
    page = "livraison" =>
        IF dateLivraison = << >> THEN dateDepartCamions = << >>
        ELSE /\ dateDepartCamions # << >>
             /\ DaysFromCivil(ParseDate(dateDepartCamions)) + 2
                = DaysFromCivil(ParseDate(dateLivraison))

====
